---- MODULE Spec2Model ----
(***************************************************************************)
(* RFCOMM TTY device bridge (net/bluetooth/rfcomm/tty.c).                  *)
(*                                                                         *)
(* The model follows the driver at the granularity of its critical         *)
(* sections: every step below is one lock-protected region or one atomic   *)
(* operation of the C code, executed by one execution context.  Contexts   *)
(* are ioctl callers (create, release), TTY users (open, close), the       *)
(* RFCOMM core thread that runs the DLC callbacks, and the TTY hang-up     *)
(* worker.  Memory is a pool of record slots: kfree() leaves the slot's    *)
(* contents behind and kzalloc() may hand a freed slot out again, so a     *)
(* dangling pointer either reads the stale record or the record of the     *)
(* next owner of the slot.                                                 *)
(***************************************************************************)
EXTENDS Integers, Sequences, FiniteSets, TLC

\* ---------------------------------------------------------------- bounds
\* Stand-in for RFCOMM_MAX_DEV (256 in the kernel headers), scaled down.
RFCOMM_MAX_DEV == 4
\* create requests issued under the concurrent scheduling.
MaxCreate == 2
\* open()/close() pairs per TTY user.
MaxOpen == 1
\* failures of tty_port_register_device() in one run.
MaxRegFail == 1
\* release requests per releasing context under the concurrent scheduling.
MaxRelease == 1
\* chunks already buffered in a socket when its DLC is handed over.
MaxPre == 1
MaxHandoff == 2
MaxRx == 4
MaxList == 2
MaxMtu == 2
MaxCredits == 2
MaxWrite == 4
MaxWrites == 2
MaxTermios == 2

\* ------------------------------------------------------------- constants
NSlots == RFCOMM_MAX_DEV + 1
Slots == 1..NSlots
\* the DLC of the record in slot s is dlc[s]
Dlcs == Slots
Ids == 0..(RFCOMM_MAX_DEV - 1)
Null == 0
\* dlc->owner while the DLC still belongs to its socket
SkOwner == -1

Creators == {"c1"}
Releasers == {"r1", "r2"}
Users == {"u1", "u2"}
Krfcommd == {"k"}
HupWork == {"h"}
Inquirers == {"q"}
Ctx == Creators \cup Releasers \cup Users \cup Krfcommd \cup HupWork
        \cup Inquirers

\* error codes returned to callers (negative errno of the C code)
ENODEV == -19
EADDRINUSE == -98
ENFILE == -23
ENOMEM == -12
EINTR == -4
\* an error of tty_port_register_device()
EREG == -5
\* channel error codes handed to the state-change callback
ChanErrs == {0, 104}

VARIABLES
    rfcomm_dev_list,   \* the registry: sequence of slots, head first
    rfcomm_dev_lock,   \* holder of the registry spinlock, or "none"
    dev,               \* slot -> struct rfcomm_dev
    dlc,               \* dlc  -> struct rfcomm_dlc (the part the driver uses)
    tty,               \* tty index -> [driver_data, lock, hup]
    ctx,               \* context -> program counter and locals
    module_refs,       \* references taken on THIS_MODULE by the driver
    panic,             \* "none", or the BUG_ON() that fired
    hist,              \* history of the run (counters the claims speak about)
    sched              \* scheduling: "conc" or "seq", and the create budget

vars == <<rfcomm_dev_list, rfcomm_dev_lock, dev, dlc, tty, ctx, module_refs,
          panic, hist, sched>>

\* ------------------------------------------------------------ data model
\* struct rfcomm_dev after kzalloc()
ZeroDev ==
    [st |-> "none", id |-> 0, onhup |-> FALSE, released |-> FALSE,
     attached |-> FALSE, kref |-> 0, count |-> 0, tty |-> FALSE, err |-> 0,
     dlc |-> Null, pending |-> <<>>, registered |-> FALSE,
     rx |-> <<>>,   \* the port's read buffer: chunks in order of insertion
     deferred |-> FALSE,  \* rfcomm_dev_del() found the port open and left
                          \* the unlink to the last close()
     wmem_alloc |-> 0]

\* a DLC that has not been allocated
NoDlc ==
    [st |-> "none", state |-> "OPEN", pend_close |-> FALSE, owner |-> Null,
     cb |-> "none", lock |-> "none", throttled |-> FALSE, rcvq |-> <<>>,
     sk |-> FALSE,
     seq |-> 0,     \* chunks received on the DLC so far; chunk n is the n-th
     mtu |-> 0, tx_credits |-> 0,
     txq |-> <<>>]  \* chunks handed to rfcomm_dlc_send() and not yet freed

\* the flow-control characters of the RFCOMM port negotiation
RFCOMM_RPN_XON_CHAR == "DC1"
RFCOMM_RPN_XOFF_CHAR == "DC3"

\* init_termios of the driver: B9600 | CS8, no parity, one stop bit, the
\* standard start and stop characters
InitTermios ==
    [parenb |-> FALSE, parodd |-> FALSE, cstopb |-> FALSE, csize |-> "CS8",
     baud |-> 9600, vstart |-> "DC1", vstop |-> "DC3"]

\* the settings a caller can ask for
Termios ==
    [parenb : BOOLEAN, parodd : BOOLEAN, cstopb : BOOLEAN,
     csize : {"CS7", "CS8"}, baud : {300, 9600, 115200},
     vstart : {"DC1", "ENQ"}, vstop : {"DC3", "ENQ"}]

IdleCtx ==
    [pc |-> "idle", dev |-> Null, did |-> Null, idx |-> 0,
     req |-> [dev_id |-> 0, onhup |-> FALSE, reuse |-> FALSE],
     ret |-> 0, now |-> FALSE, tgt |-> Null, nput |-> 0, after |-> "idle",
     after2 |-> "idle", left |-> 0,
     out |-> <<>>,          \* what an ioctl copies to the caller, the chunks
                            \* a write has queued, the messages
                            \* set_termios() has sent
     old |-> InitTermios,   \* the settings before set_termios()
     wr |-> [count |-> 0, sent |-> 0, err |-> 0, total |-> 0, ret |-> 0],
                            \* locals of rfcomm_tty_write(); total is the
                            \* length of the buffer it was called with
     tstate |-> "running",  \* task state: "running" or "interruptible"
     sig |-> FALSE]         \* a signal is pending

NoTty == [driver_data |-> Null, lock |-> "none", hup |-> FALSE,
          termios |-> InitTermios]

ZeroHist ==
    [uaf |-> FALSE,       \* a freed record was dereferenced
     n01 |-> 0,           \* open() calls that raised port.count from 0 to 1
     nattach |-> 0,       \* open() calls that attached the tty and called rfcomm_dlc_open()
     nclose |-> 0,        \* close() calls that called rfcomm_dlc_close()
     unmatched |-> FALSE, \* close() acted for an open() that took no reference
     nqueued |-> 0]       \* chunks rfcomm_dev_data_ready() put on dev->pending

\* positions of the list members
ListSlots == {rfcomm_dev_list[i] : i \in 1..Len(rfcomm_dev_list)}
Linked(s) == s \in ListSlots

\* list_del() / list_del_init(): unlink the slot if it is linked
ListDel(l, s) == SelectSeq(l, LAMBDA x : x # s)

\* list_add(new, head): insert after position p (p = 0 is the list head)
ListAddAfter(l, p, s) == SubSeq(l, 1, p) \o <<s>> \o SubSeq(l, p + 1, Len(l))

RECURSIVE ListFind(_, _, _)
ListFind(l, i, id) ==
    IF i > Len(l) THEN Null
    ELSE IF dev[l[i]].id = id THEN l[i]
    ELSE ListFind(l, i + 1, id)

\* __rfcomm_dev_get(): linear scan of the list by id
RawDevGet(id) == ListFind(rfcomm_dev_list, 1, id)

\* rfcomm_dev_get(): the record, unless RFCOMM_TTY_RELEASED is set
rfcomm_dev_get(id) ==
    LET d == RawDevGet(id) IN
    IF d # Null /\ dev[d].released THEN Null ELSE d

\* a scan for dev_id < 0 that appends instead of filling the first gap
AnyScanAppend(l, i, id) == <<Len(l), Len(l)>>

\* the scan of rfcomm_dev_add() for dev_id < 0: <<id, insert position>>
RECURSIVE AnyScan(_, _, _)
AnyScan(l, i, id) ==
    IF i > Len(l) THEN <<id, i - 1>>
    ELSE IF dev[l[i]].id # id THEN <<id, i - 1>>
    ELSE AnyScan(l, i + 1, id + 1)

\* a scan for a requested id that never reports the id as in use
ReqScanBlind(l, i, id) == <<FALSE, 0>>

\* the scan of rfcomm_dev_add() for a requested id: <<in use?, insert position>>
RECURSIVE ReqScan(_, _, _)
ReqScan(l, i, id) ==
    IF i > Len(l) THEN <<FALSE, i - 1>>
    ELSE IF dev[l[i]].id = id THEN <<TRUE, 0>>
    ELSE IF dev[l[i]].id > id - 1 THEN <<FALSE, i - 1>>
    ELSE ReqScan(l, i + 1, id)

\* an id allocation without the range check
AllocIdNoRange(req_id) ==
    LET any == AnyScan(rfcomm_dev_list, 1, 0)
        rq  == ReqScan(rfcomm_dev_list, 1, req_id)
        id  == IF req_id < 0 THEN any[1] ELSE req_id
        pos == IF req_id < 0 THEN any[2] ELSE rq[2]
    IN  IF req_id >= 0 /\ rq[1] THEN [err |-> EADDRINUSE, id |-> id, pos |-> 0]
        ELSE [err |-> 0, id |-> id, pos |-> pos]

\* id allocation of rfcomm_dev_add(): [err, id, pos]
AllocId(req_id) ==
    LET any == AnyScan(rfcomm_dev_list, 1, 0)
        rq  == ReqScan(rfcomm_dev_list, 1, req_id)
        id  == IF req_id < 0 THEN any[1] ELSE req_id
        pos == IF req_id < 0 THEN any[2] ELSE rq[2]
    IN  IF req_id >= 0 /\ rq[1] THEN [err |-> EADDRINUSE, id |-> id, pos |-> 0]
        ELSE IF id < 0 \/ id > RFCOMM_MAX_DEV - 1
             THEN [err |-> ENFILE, id |-> id, pos |-> 0]
        ELSE [err |-> 0, id |-> id, pos |-> pos]

\* kzalloc(): a slot that is not in use.  Never-used slots are handed out
\* lowest first; a freed slot may be handed out again, any of them under the
\* concurrent scheduling (where dangling pointers exist) and the lowest under
\* the sequential one
FreshSlots == {s \in Slots : dev[s].st = "none" /\ dlc[s].st = "none"}
FreedSlots == {s \in Slots : dev[s].st = "freed" /\ dlc[s].st = "none"}
Lowest(S) == IF S = {} THEN {} ELSE {CHOOSE s \in S : \A t \in S : s <= t}
AllocSlots ==
    IF sched.mode = "seq" THEN Lowest(FreedSlots \cup FreshSlots)
    ELSE FreedSlots \cup Lowest(FreshSlots)

\* the DLCs of connected sockets that earlier create requests left behind
SocketDlcs ==
    {s \in Slots : /\ dev[s].st = "freed"
                   /\ dlc[s].st = "live" /\ dlc[s].sk /\ dlc[s].owner = SkOwner}

\* a budget: n > 0 calls are left, n < 0 is no limit
Spend(n) == IF n > 0 THEN n - 1 ELSE n

\* a dereference of a record that has been freed
Stale(s) == s # Null /\ dev[s].st # "live"
Touch(s) == [hist EXCEPT !.uaf = @ \/ Stale(s)]

Running == panic = "none"
Idle(c) == ctx[c].pc = "idle"
\* a context that is between two calls, or asleep in open()'s wait loop
Parked(c) ==
    \/ ctx[c].pc \in {"idle", "opened"}
    \/ ctx[c].pc = "open_sched"
\* under the sequential scheduling a call starts only when no other call is
\* in progress
MayStart(c) ==
    /\ Running
    /\ sched.mode = "seq" => \A o \in Ctx \ {c} : Parked(o)

At(c, pc) == Running /\ ctx[c].pc = pc

\* rfcomm_dlc_put(): the DLC dies with its last holder
DlcPut(dl, d) ==
    IF d = Null THEN dl
    ELSE IF dl[d].sk THEN dl
    ELSE [dl EXCEPT ![d] = NoDlc]

\* the locals of a context that has returned to its caller
Reset(cx) == [IdleCtx EXCEPT !.left = cx.left]

\* ----------------------------------------------------- create (ioctl)
\* rfcomm_create_dev() up to the call of rfcomm_dev_add(), and the kzalloc()
\* that opens it: the DLC is the connected socket's (RFCOMM_REUSE_DLC, with
\* the data the socket has buffered) or a new one
rfcomm_create_dev(c) ==
    /\ MayStart(c)
    /\ Idle(c)
    /\ c \in Creators
    /\ sched.creates # 0
    /\ sched' = [sched EXCEPT !.creates = Spend(@)]
    /\ \E req_id \in sched.req_ids, onhup \in sched.onhup, reuse \in sched.reuse :
        LET rq == [dev_id |-> req_id, onhup |-> onhup, reuse |-> reuse] IN
        \/ \* a new DLC, or the DLC of a newly connected socket
           /\ AllocSlots # {}
           /\ \E s \in AllocSlots, pre \in sched.pre, mtu \in sched.mtus,
                 cr \in sched.credits :
                /\ ~reuse => pre = 0
                /\ dev' = [dev EXCEPT ![s] = [ZeroDev EXCEPT !.st = "live"]]
                /\ dlc' = [dlc EXCEPT ![s] =
                      IF reuse
                      THEN [NoDlc EXCEPT !.st = "live", !.state = "CONNECTED",
                                         !.owner = SkOwner, !.cb = "sk",
                                         !.sk = TRUE,
                                         !.rcvq = [i \in 1..pre |-> i],
                                         !.seq = pre, !.mtu = mtu,
                                         !.tx_credits = cr]
                      ELSE [NoDlc EXCEPT !.st = "live", !.mtu = mtu,
                                         !.tx_credits = cr]]
                /\ ctx' = [ctx EXCEPT ![c].pc = "add_list", ![c].dev = s,
                             ![c].did = s, ![c].req = rq]
        \/ \* the DLC of a socket that is still connected
           /\ reuse
           /\ \E s \in SocketDlcs :
                /\ dev' = [dev EXCEPT ![s] = [ZeroDev EXCEPT !.st = "live"]]
                /\ dlc' = dlc
                /\ ctx' = [ctx EXCEPT ![c].pc = "add_list", ![c].dev = s,
                             ![c].did = s, ![c].req = rq]
        \/ \* kzalloc() fails
           /\ AllocSlots = {}
           /\ UNCHANGED <<dev, dlc, ctx>>
    /\ UNCHANGED <<rfcomm_dev_list, rfcomm_dev_lock, tty, module_refs, panic, hist>>

\* an add that links the record before it knows that the id is free
AddListLinksFirst(c) ==
    /\ At(c, "add_list")
    /\ rfcomm_dev_lock = "none"
    /\ LET s == ctx[c].dev
           a == AllocId(ctx[c].req.dev_id)
       IN
       IF a.err # 0
       THEN /\ ctx' = [ctx EXCEPT ![c].pc = "add_free", ![c].ret = a.err]
            /\ rfcomm_dev_list' = ListAddAfter(rfcomm_dev_list, 0, s)
            /\ UNCHANGED <<rfcomm_dev_lock, dev>>
       ELSE /\ dev' = [dev EXCEPT ![s].id = a.id, ![s].onhup = ctx[c].req.onhup,
                                  ![s].kref = 1]
            /\ rfcomm_dev_list' = ListAddAfter(rfcomm_dev_list, a.pos, s)
            /\ rfcomm_dev_lock' = c
            /\ ctx' = [ctx EXCEPT ![c].pc = "add_dlc"]
    /\ UNCHANGED <<dlc, tty, module_refs, panic, hist, sched>>

\* rfcomm_dev_add() under rfcomm_dev_lock: the id is chosen; the record is
\* linked in id order and initialised, or the call fails with the list
\* untouched
rfcomm_dev_add_list(c) ==
    /\ At(c, "add_list")
    /\ rfcomm_dev_lock = "none"
    /\ LET s == ctx[c].dev
           a == AllocId(ctx[c].req.dev_id)
       IN
       IF a.err # 0
       THEN \* goto out
            /\ ctx' = [ctx EXCEPT ![c].pc = "add_free", ![c].ret = a.err]
            /\ UNCHANGED <<rfcomm_dev_list, rfcomm_dev_lock, dev>>
       ELSE /\ dev' = [dev EXCEPT ![s].id = a.id, ![s].onhup = ctx[c].req.onhup,
                                  ![s].kref = 1]
            /\ rfcomm_dev_list' = ListAddAfter(rfcomm_dev_list, a.pos, s)
            /\ rfcomm_dev_lock' = c
            /\ ctx' = [ctx EXCEPT ![c].pc = "add_dlc"]
    /\ UNCHANGED <<dlc, tty, module_refs, panic, hist, sched>>

\* rfcomm_dev_add() under the DLC lock: the data buffered in the socket is
\* moved to dev->pending, the callbacks and the owner are installed; both
\* locks are dropped and the module reference is taken.
rfcomm_dev_add_dlc(c) ==
    /\ At(c, "add_dlc")
    /\ LET s == ctx[c].dev
           d == ctx[c].did
       IN
       /\ dlc[d].lock = "none"
       /\ dlc' = [dlc EXCEPT ![d].cb = "dev", ![d].owner = s,
                    ![d].throttled = IF ctx[c].req.reuse THEN TRUE ELSE @,
                    ![d].rcvq = <<>>]
       /\ dev' = [dev EXCEPT ![s].dlc = d,
                    ![s].pending = IF ctx[c].req.reuse THEN dlc[d].rcvq ELSE @]
       /\ module_refs' = module_refs + 1
       /\ rfcomm_dev_lock' = "none"
       /\ ctx' = [ctx EXCEPT ![c].pc = "add_register"]
    /\ UNCHANGED <<rfcomm_dev_list, tty, panic, hist, sched>>

\* tty_port_register_device() after the registry lock was dropped: on success
\* rfcomm_create_dev() returns the id (and a reused socket is disconnected);
\* on failure the record is unlinked, without the lock, on the way to free
rfcomm_dev_add_register(c) ==
    /\ At(c, "add_register")
    /\ LET s == ctx[c].dev
           d == ctx[c].did
       IN
       \/ /\ dev' = [dev EXCEPT ![s].registered = TRUE]
          /\ dlc' = [dlc EXCEPT ![d].sk = FALSE]
          /\ ctx' = [ctx EXCEPT ![c] = Reset(@)]
          /\ hist' = Touch(s)
          /\ UNCHANGED <<rfcomm_dev_list, sched>>
       \/ /\ sched.regfail > 0
          /\ sched' = [sched EXCEPT !.regfail = @ - 1]
          /\ rfcomm_dev_list' = ListDel(rfcomm_dev_list, s)
          /\ ctx' = [ctx EXCEPT ![c].pc = "add_free", ![c].ret = EREG]
          /\ hist' = Touch(s)
          /\ UNCHANGED <<dev, dlc>>
    /\ UNCHANGED <<rfcomm_dev_lock, tty, module_refs, panic>>

\* rfcomm_dev_add() at free: kfree(dev); rfcomm_create_dev() then puts the
\* DLC and returns the error
rfcomm_dev_add_free(c) ==
    /\ At(c, "add_free")
    /\ dev' = [dev EXCEPT ![ctx[c].dev].st = "freed"]
    /\ dlc' = DlcPut(dlc, ctx[c].did)
    /\ ctx' = [ctx EXCEPT ![c] = Reset(@)]
    /\ UNCHANGED <<rfcomm_dev_list, rfcomm_dev_lock, tty, module_refs, panic,
                   hist, sched>>

\* ------------------------------------------------- shared procedures
\* rfcomm_release_dev() after the hang-up: rfcomm_dev_del() unless the device
\* releases on hang-up, then the put of the reference taken by the lookup
RelDel(cx) ==
    IF ~dev[cx.dev].onhup
    THEN [cx EXCEPT !.pc = "del", !.tgt = cx.dev, !.after = "idle"]
    ELSE [cx EXCEPT !.pc = "put", !.tgt = cx.dev, !.nput = 1, !.after = "idle"]

\* where a context continues when a procedure ends at `t`
ContCtx(cx, t) ==
    IF t = "idle" THEN Reset(cx)
    ELSE IF t = "close_end" THEN [Reset(cx) EXCEPT !.pc = "idle"]
    ELSE IF t = "hup_end"
         THEN IF cx.after2 = "rel_del" THEN RelDel(cx) ELSE Reset(cx)
    ELSE [cx EXCEPT !.pc = t]

\* the callers that hold tty i open: from the start of open() to the end of
\* close()
TtyUsers(i) == {u \in Users : ctx[u].pc # "idle" /\ ctx[u].idx = i}

\* the end of the close() of context c: a hang-up is delivered to a tty
\* while it is attached; with its last holder the tty goes, and a hang-up
\* still queued for it goes with it (the next open() gets a new tty)
TtyRelease(ty, c, i) ==
    IF TtyUsers(i) \subseteq {c} THEN [ty EXCEPT ![i].hup = FALSE] ELSE ty

\* tty_unlock() at the end of close() and of the hang-up
ContTty(c, cx, t) ==
    LET ty == IF t \in {"close_end", "hup_end"} /\ tty[cx.idx].lock = c
              THEN [tty EXCEPT ![cx.idx].lock = "none"]
              ELSE tty
    IN
    IF t = "close_end" THEN TtyRelease(ty, c, cx.idx) ELSE ty

\* rfcomm_dlc_close(): the channel is asked to close; the closed state change
\* is reported by the RFCOMM core afterwards
rfcomm_dlc_close(dl, d) ==
    IF d # Null /\ dl[d].st = "live" THEN [dl EXCEPT ![d].pend_close = TRUE]
    ELSE dl

\* rfcomm_dev_del(): BUG_ON(test_and_set_bit(RFCOMM_TTY_RELEASED)), then the
\* check of port.count under port.lock
rfcomm_dev_del(c) ==
    /\ At(c, "del")
    /\ LET t == ctx[c].tgt IN
       /\ hist' = Touch(t)
       /\ IF dev[t].released
          THEN /\ panic' = "BUG_del"
               /\ UNCHANGED <<dev, ctx>>
          ELSE /\ dev' = [dev EXCEPT ![t].released = TRUE,
                                      ![t].deferred = dev[t].count > 0]
               /\ panic' = panic
               /\ ctx' = [ctx EXCEPT ![c] =
                     IF dev[t].count > 0
                     THEN [@ EXCEPT !.pc = "put", !.nput = 1]
                     ELSE [@ EXCEPT !.pc = "del_unlink"]]
    /\ UNCHANGED <<rfcomm_dev_list, rfcomm_dev_lock, dlc, tty, module_refs, sched>>

\* rfcomm_dev_del(): list_del_init() under rfcomm_dev_lock; the put of the
\* registry's reference and the caller's put follow
rfcomm_dev_del_unlink(c) ==
    /\ At(c, "del_unlink")
    /\ rfcomm_dev_lock = "none"
    /\ rfcomm_dev_list' = ListDel(rfcomm_dev_list, ctx[c].tgt)
    /\ ctx' = [ctx EXCEPT ![c].pc = "put", ![c].nput = 2]
    /\ hist' = Touch(ctx[c].tgt)
    /\ UNCHANGED <<rfcomm_dev_lock, dev, dlc, tty, module_refs, panic, sched>>

\* tty_port_put(): kref_put(); the release function runs when the count
\* reaches zero
tty_port_put(c) ==
    /\ At(c, "put")
    /\ LET t  == ctx[c].tgt
           k  == dev[t].kref - 1
           cx == [ctx[c] EXCEPT !.nput = @ - 1]
           nx == IF cx.nput > 0 THEN "put" ELSE cx.after
       IN
       /\ dev' = [dev EXCEPT ![t].kref = k]
       /\ hist' = Touch(t)
       /\ IF k = 0
          THEN /\ ctx' = [ctx EXCEPT ![c] = [cx EXCEPT !.pc = "destruct"]]
               /\ tty' = tty
          ELSE /\ ctx' = [ctx EXCEPT ![c] = ContCtx(cx, nx)]
               /\ tty' = ContTty(c, cx, nx)
    /\ UNCHANGED <<rfcomm_dev_list, rfcomm_dev_lock, dlc, module_refs, panic, sched>>

\* rfcomm_dev_destruct(): BUG_ON(!list_empty(&dev->list)); the owner is
\* cleared under the DLC lock, the DLC is put, the device is unregistered and
\* the record is freed
rfcomm_dev_destruct(c) ==
    /\ At(c, "destruct")
    /\ LET t  == ctx[c].tgt
           d  == dev[t].dlc
           cx == ctx[c]
           nx == IF cx.nput > 0 THEN "put" ELSE cx.after
       IN
       IF Linked(t)
       THEN /\ panic' = "BUG_destruct"
            /\ UNCHANGED <<dev, dlc, ctx, tty, module_refs>>
       ELSE /\ d # Null => dlc[d].lock = "none"
            /\ dlc' = IF d = Null THEN dlc
                      ELSE DlcPut([dlc EXCEPT ![d].owner =
                                     IF @ = t THEN Null ELSE @], d)
            /\ dev' = [dev EXCEPT ![t].st = "freed", ![t].registered = FALSE]
            /\ module_refs' = module_refs - 1
            /\ ctx' = [ctx EXCEPT ![c] = ContCtx(cx, nx)]
            /\ tty' = ContTty(c, cx, nx)
            /\ panic' = panic
    /\ UNCHANGED <<rfcomm_dev_list, rfcomm_dev_lock, hist, sched>>

\* rfcomm_tty_hangup() under the tty lock: the outbound queue is flushed and,
\* for a release-on-hang-up device that is still found by id,
\* rfcomm_dev_del() and the put follow
HangupStart(c, i, cx, ty) ==
    /\ tty[i].lock = "none"
    /\ rfcomm_dev_lock = "none"
    /\ LET d == tty[i].driver_data
           g == IF d = Null THEN Null ELSE rfcomm_dev_get(dev[d].id)
       IN
       /\ hist' = Touch(d)
       /\ IF d = Null \/ ~dev[d].onhup \/ g = Null
          THEN /\ ctx' = [ctx EXCEPT ![c] = ContCtx([cx EXCEPT !.idx = i], "hup_end")]
               /\ tty' = ty
               /\ dev' = dev
          ELSE /\ dev' = [dev EXCEPT ![g].kref = @ + 1]
               /\ tty' = [ty EXCEPT ![i].lock = c]
               /\ ctx' = [ctx EXCEPT ![c] =
                            [cx EXCEPT !.pc = "del", !.tgt = d, !.idx = i,
                                       !.after = "hup_end"]]

\* ---------------------------------------------------- release (ioctl)
\* rfcomm_release_dev(): the lookup, and rfcomm_dlc_close() for HANGUP_NOW
rfcomm_release_dev(c) ==
    /\ MayStart(c)
    /\ Idle(c)
    /\ c \in Releasers
    /\ ctx[c].left # 0
    /\ rfcomm_dev_lock = "none"
    /\ \E id \in sched.rel_ids, now \in sched.now :
         LET g == rfcomm_dev_get(id) IN
         IF g = Null
         THEN /\ ctx' = [ctx EXCEPT ![c].left = Spend(@)]
              /\ UNCHANGED <<dev, dlc>>
         ELSE /\ dev' = [dev EXCEPT ![g].kref = @ + 1]
              /\ dlc' = IF now THEN rfcomm_dlc_close(dlc, dev[g].dlc) ELSE dlc
              /\ ctx' = [ctx EXCEPT ![c].pc = "rel_vhangup", ![c].dev = g,
                           ![c].now = now, ![c].left = Spend(@)]
    /\ UNCHANGED <<rfcomm_dev_list, rfcomm_dev_lock, tty, module_refs, panic,
                   hist, sched>>

\* rfcomm_release_dev(): tty_vhangup() when a tty is attached, then
\* rfcomm_dev_del() and the put
rfcomm_release_vhangup(c) ==
    /\ At(c, "rel_vhangup")
    /\ LET s == ctx[c].dev IN
       IF dev[s].tty
       THEN /\ HangupStart(c, dev[s].id, [ctx[c] EXCEPT !.after2 = "rel_del"], tty)
            /\ UNCHANGED <<rfcomm_dev_list, rfcomm_dev_lock, dlc, module_refs,
                           panic, sched>>
       ELSE /\ ctx' = [ctx EXCEPT ![c] = RelDel(@)]
            /\ hist' = Touch(s)
            /\ UNCHANGED <<rfcomm_dev_list, rfcomm_dev_lock, dev, dlc, tty,
                           module_refs, panic, sched>>

\* ------------------------------------------------ list, info (ioctl)
\* what list and info report of a record: its id and the state of its DLC
DevInfo(s) ==
    [id |-> dev[s].id,
     state |-> IF dev[s].dlc = Null THEN "none" ELSE dlc[dev[s].dlc].state]

\* the loop of rfcomm_get_dev_list(): the records of the list in order,
\* released ones skipped, until dev_num entries are filled
DevList(dev_num) ==
    LET l == SelectSeq(rfcomm_dev_list, LAMBDA s : ~dev[s].released)
        n == IF Len(l) < dev_num THEN Len(l) ELSE dev_num
    IN [i \in 1..n |-> DevInfo(l[i])]

\* rfcomm_get_dev_list(): the snapshot taken under rfcomm_dev_lock
rfcomm_get_dev_list(c) ==
    /\ MayStart(c)
    /\ Idle(c)
    /\ c \in Inquirers
    /\ rfcomm_dev_lock = "none"
    /\ \E dev_num \in 1..MaxList :
         ctx' = [ctx EXCEPT ![c].pc = "ioctl_ret", ![c].ret = 0,
                            ![c].out = DevList(dev_num)]
    /\ UNCHANGED <<rfcomm_dev_list, rfcomm_dev_lock, dev, dlc, tty, module_refs,
                   panic, hist, sched>>

\* rfcomm_get_dev_info(): the lookup by id; a record that is found is
\* copied out and its reference put
rfcomm_get_dev_info(c) ==
    /\ MayStart(c)
    /\ Idle(c)
    /\ c \in Inquirers
    /\ rfcomm_dev_lock = "none"
    /\ \E id \in sched.rel_ids :
         LET g == rfcomm_dev_get(id) IN
         IF g = Null
         THEN /\ ctx' = [ctx EXCEPT ![c].pc = "ioctl_ret", ![c].ret = ENODEV,
                                    ![c].req.dev_id = id]
              /\ dev' = dev
         ELSE /\ dev' = [dev EXCEPT ![g].kref = @ + 1]
              /\ ctx' = [ctx EXCEPT ![c].pc = "put", ![c].tgt = g,
                           ![c].dev = g, ![c].nput = 1,
                           ![c].after = "ioctl_ret", ![c].ret = 0,
                           ![c].req.dev_id = id,
                           ![c].out = <<DevInfo(g)>>]
    /\ UNCHANGED <<rfcomm_dev_list, rfcomm_dev_lock, dlc, tty, module_refs,
                   panic, hist, sched>>

\* rfcomm_dev_ioctl(): the result goes back to the caller
rfcomm_dev_ioctl_ret(c) ==
    /\ At(c, "ioctl_ret")
    /\ ctx' = [ctx EXCEPT ![c] = Reset(@)]
    /\ UNCHANGED <<rfcomm_dev_list, rfcomm_dev_lock, dev, dlc, tty, module_refs,
                   panic, hist, sched>>

\* the hang-up work queued by tty_hangup()
rfcomm_tty_hangup(c) ==
    /\ MayStart(c)
    /\ Idle(c)
    /\ c \in HupWork
    /\ \E i \in Ids :
         /\ tty[i].hup
         /\ HangupStart(c, i, [ctx[c] EXCEPT !.after2 = "idle"],
                        [tty EXCEPT ![i].hup = FALSE])
         /\ UNCHANGED <<rfcomm_dev_list, rfcomm_dev_lock, dlc, module_refs,
                        panic, sched>>

\* ------------------------------------------------------- open / close
\* the device nodes a user can open: registered and not yet unregistered
Nodes == {dev[s].id : s \in {t \in Slots : dev[t].st = "live" /\ dev[t].registered}}

\* rfcomm_tty_open(): the lookup by tty->index, under the tty lock
rfcomm_tty_open(c) ==
    /\ MayStart(c)
    /\ Idle(c)
    /\ c \in Users
    /\ ctx[c].left > 0
    /\ rfcomm_dev_lock = "none"
    /\ \E i \in Nodes \cap sched.open_ids :
         /\ tty[i].lock = "none"
         /\ LET g == rfcomm_dev_get(i) IN
            IF g = Null
            THEN /\ ctx' = [ctx EXCEPT ![c].pc = "opened", ![c].idx = i,
                              ![c].ret = ENODEV, ![c].left = @ - 1]
                 /\ UNCHANGED <<dev, tty>>
            ELSE /\ dev' = [dev EXCEPT ![g].kref = @ + 1]
                 /\ tty' = [tty EXCEPT ![i].lock = c]
                 /\ ctx' = [ctx EXCEPT ![c].pc = "open_inc", ![c].idx = i,
                              ![c].dev = g, ![c].ret = 0, ![c].left = @ - 1]
    /\ UNCHANGED <<rfcomm_dev_list, rfcomm_dev_lock, dlc, module_refs, panic,
                   hist, sched>>

\* an open() that goes on to attach whatever the count was
OpenCountNoShare(c) ==
    /\ At(c, "open_inc")
    /\ LET s == ctx[c].dev
           n == dev[s].count + 1
       IN
       /\ dev' = [dev EXCEPT ![s].count = n]
       /\ ctx' = [ctx EXCEPT ![c].pc = "open_attach"]
       /\ tty' = tty
       /\ hist' = [Touch(s) EXCEPT !.n01 = IF n > 1 THEN @ ELSE @ + 1]
    /\ UNCHANGED <<rfcomm_dev_list, rfcomm_dev_lock, dlc, module_refs, panic, sched>>

\* rfcomm_tty_open(): ++dev->port.count under port.lock; an open that finds
\* the port already open returns at once
rfcomm_tty_open_count(c) ==
    /\ At(c, "open_inc")
    /\ LET s == ctx[c].dev
           n == dev[s].count + 1
       IN
       /\ dev' = [dev EXCEPT ![s].count = n]
       /\ IF n > 1
          THEN /\ ctx' = [ctx EXCEPT ![c].pc = "opened", ![c].ret = 0]
               /\ tty' = [tty EXCEPT ![ctx[c].idx].lock = "none"]
               /\ hist' = Touch(s)
          ELSE /\ ctx' = [ctx EXCEPT ![c].pc = "open_attach"]
               /\ tty' = tty
               /\ hist' = [Touch(s) EXCEPT !.n01 = @ + 1]
    /\ UNCHANGED <<rfcomm_dev_list, rfcomm_dev_lock, dlc, module_refs, panic, sched>>

\* the loop of rfcomm_tty_open() can leave without sleeping
NoSleep(state) == state \in {"CLOSED", "CONNECTED"}

\* rfcomm_tty_open(): the tty is attached under the DLC lock,
\* RFCOMM_TTY_ATTACHED is set and rfcomm_dlc_open() is called; the caller
\* then puts itself on dev->wait and sets its state to TASK_INTERRUPTIBLE
rfcomm_tty_open_attach(c) ==
    /\ At(c, "open_attach")
    /\ LET s == ctx[c].dev
           d == dev[s].dlc
           i == ctx[c].idx
       IN
       /\ d # Null
       /\ dlc[d].lock = "none"
       /\ dev' = [dev EXCEPT ![s].tty = TRUE, ![s].attached = TRUE]
       /\ hist' = [Touch(s) EXCEPT !.nattach = @ + 1]
       /\ \/ \* rfcomm_dlc_open() fails
             /\ dlc[d].state \in {"OPEN", "CLOSED"}
             /\ dlc' = dlc
             /\ tty' = [tty EXCEPT ![i].driver_data = s, ![i].lock = "none"]
             /\ ctx' = [ctx EXCEPT ![c].pc = "opened", ![c].ret = ENOMEM]
          \/ \* rfcomm_dlc_open() starts the connection, or finds one
             /\ LET st == IF dlc[d].state \in {"OPEN", "CLOSED"}
                          THEN "CONNECTING" ELSE dlc[d].state
                IN
                /\ dlc' = [dlc EXCEPT ![d].state = st]
                /\ tty' = [tty EXCEPT ![i].driver_data = s]
                /\ ctx' = [ctx EXCEPT ![c].pc = "open_wait", ![c].did = d,
                             ![c].tstate = "interruptible"]
    /\ UNCHANGED <<rfcomm_dev_list, rfcomm_dev_lock, module_refs, panic, sched>>

\* rfcomm_tty_open(): one pass of the wait loop.  The DLC state is read
\* after the task state was set: closed ends the wait with -dev->err,
\* connected with 0, a pending signal with -EINTR; otherwise the tty lock is
\* dropped and the caller goes to schedule()
rfcomm_tty_open_wait(c) ==
    /\ At(c, "open_wait")
    /\ LET s  == ctx[c].dev
           d  == ctx[c].did
           i  == ctx[c].idx
           st == dlc[d].state
       IN
       /\ hist' = Touch(s)
       /\ \E sig \in BOOLEAN :
            IF NoSleep(st) \/ sig \/ ctx[c].sig
            THEN /\ ctx' = [ctx EXCEPT ![c].pc = "open_done",
                              ![c].tstate = "running", ![c].sig = FALSE,
                              ![c].ret = IF st = "CLOSED" THEN 0 - dev[s].err
                                         ELSE IF st = "CONNECTED" THEN 0
                                         ELSE EINTR]
                 /\ tty' = tty
            ELSE /\ ctx' = [ctx EXCEPT ![c].pc = "open_sched"]
                 /\ tty' = [tty EXCEPT ![i].lock = "none"]
    /\ UNCHANGED <<rfcomm_dev_list, rfcomm_dev_lock, dev, dlc, module_refs,
                   panic, sched>>

\* rfcomm_tty_open(): schedule() returns once the task has been woken or a
\* signal has arrived; the tty lock is taken again and the task state is set
\* to TASK_INTERRUPTIBLE for the next pass
rfcomm_tty_open_sched(c) ==
    /\ At(c, "open_sched")
    /\ tty[ctx[c].idx].lock = "none"
    /\ \E sig \in BOOLEAN :
         /\ ctx[c].tstate = "running" \/ sig
         /\ ctx' = [ctx EXCEPT ![c].pc = "open_wait",
                      ![c].tstate = "interruptible", ![c].sig = sig]
    /\ tty' = [tty EXCEPT ![ctx[c].idx].lock = c]
    /\ UNCHANGED <<rfcomm_dev_list, rfcomm_dev_lock, dev, dlc, module_refs,
                   panic, hist, sched>>

\* tty_insert_flip_string() of the tty layer: the chunks are appended to the
\* read buffer of the port
tty_insert_flip_string(buf, chunks) == buf \o chunks

\* rfcomm_tty_copy_pending(): under the DLC lock every chunk of dev->pending
\* is put, in order, into the port's read buffer
CopyPending(dv, s) ==
    [dv EXCEPT ![s].rx = tty_insert_flip_string(@, dv[s].pending),
               ![s].pending = <<>>]

\* rfcomm_tty_open() after the wait: rfcomm_tty_copy_pending() and
\* rfcomm_dlc_unthrottle(), then the return to the tty layer
rfcomm_tty_open_done(c) ==
    /\ At(c, "open_done")
    /\ LET s == ctx[c].dev
           d == ctx[c].did
           i == ctx[c].idx
       IN
       /\ dlc[d].lock = "none"
       /\ dev' = CopyPending(dev, s)
       /\ dlc' = [dlc EXCEPT ![d].throttled = FALSE]
       /\ tty' = [tty EXCEPT ![i].lock = "none"]
       /\ ctx' = [ctx EXCEPT ![c].pc = "opened"]
       /\ hist' = Touch(s)
    /\ UNCHANGED <<rfcomm_dev_list, rfcomm_dev_lock, module_refs, panic, sched>>

\* ----------------------------------------------------- set_termios
\* a DLC that is linked to a session
HasSession(d) == d # Null /\ dlc[d].state \in {"CONNECTING", "CONNECTED"}

RpnParity(t) ==
    IF t.parenb
    THEN IF t.parodd THEN "RFCOMM_RPN_PARITY_ODD" ELSE "RFCOMM_RPN_PARITY_EVEN"
    ELSE "RFCOMM_RPN_PARITY_NONE"

RpnStop(t) == IF t.cstopb THEN "RFCOMM_RPN_STOP_15" ELSE "RFCOMM_RPN_STOP_1"

RpnData(t) ==
    CASE t.csize = "CS5" -> "RFCOMM_RPN_DATA_5"
      [] t.csize = "CS6" -> "RFCOMM_RPN_DATA_6"
      [] t.csize = "CS7" -> "RFCOMM_RPN_DATA_7"
      [] t.csize = "CS8" -> "RFCOMM_RPN_DATA_8"
      [] OTHER -> "RFCOMM_RPN_DATA_8"

RpnBaud(rate) ==
    CASE rate = 2400 -> "RFCOMM_RPN_BR_2400"
      [] rate = 4800 -> "RFCOMM_RPN_BR_4800"
      [] rate = 7200 -> "RFCOMM_RPN_BR_7200"
      [] rate = 9600 -> "RFCOMM_RPN_BR_9600"
      [] rate = 19200 -> "RFCOMM_RPN_BR_19200"
      [] rate = 38400 -> "RFCOMM_RPN_BR_38400"
      [] rate = 57600 -> "RFCOMM_RPN_BR_57600"
      [] rate = 115200 -> "RFCOMM_RPN_BR_115200"
      [] rate = 230400 -> "RFCOMM_RPN_BR_230400"
      [] OTHER -> "RFCOMM_RPN_BR_9600"

\* the bits of the parameter mask
RpnChanges(old, new) ==
    (IF old.parenb # new.parenb \/ old.parodd # new.parodd
     THEN {"RFCOMM_RPN_PM_PARITY"} ELSE {}) \cup
    (IF old.vstop # new.vstop THEN {"RFCOMM_RPN_PM_XON"} ELSE {}) \cup
    (IF old.vstart # new.vstart THEN {"RFCOMM_RPN_PM_XOFF"} ELSE {}) \cup
    (IF old.cstopb # new.cstopb THEN {"RFCOMM_RPN_PM_STOP"} ELSE {}) \cup
    (IF old.csize # new.csize THEN {"RFCOMM_RPN_PM_DATA"} ELSE {}) \cup
    (IF old.baud # new.baud THEN {"RFCOMM_RPN_PM_BITRATE"} ELSE {})

\* the translation of rfcomm_tty_set_termios(): the messages handed to
\* rfcomm_send_rpn() for a change from old to new
SetTermios(old, new) ==
    IF RpnChanges(old, new) = {} THEN <<>>
    ELSE <<[baud      |-> RpnBaud(new.baud),
            data_bits |-> RpnData(new),
            stop_bits |-> RpnStop(new),
            parity    |-> RpnParity(new),
            flow      |-> "RFCOMM_RPN_FLOW_NONE",
            x_on      |-> IF old.vstop # new.vstop THEN new.vstop
                          ELSE RFCOMM_RPN_XON_CHAR,
            x_off     |-> IF old.vstart # new.vstart THEN new.vstart
                          ELSE RFCOMM_RPN_XOFF_CHAR,
            changes   |-> RpnChanges(old, new)]>>

\* the tty layer stores the new settings and calls rfcomm_tty_set_termios()
\* with the old ones; nothing is sent without a device, a DLC and a session
rfcomm_tty_set_termios(c) ==
    /\ At(c, "opened")
    /\ MayStart(c)
    /\ ctx[c].ret = 0
    /\ sched.termios # 0
    /\ sched' = [sched EXCEPT !.termios = Spend(@)]
    /\ LET i == ctx[c].idx
           s == tty[i].driver_data
       IN
       \E new \in Termios :
          /\ tty' = [tty EXCEPT ![i].termios = new]
          /\ ctx' = [ctx EXCEPT ![c].pc = "termios_ret",
                       ![c].old = tty[i].termios,
                       ![c].out = IF s = Null \/ ~HasSession(dev[s].dlc)
                                  THEN <<>>
                                  ELSE SetTermios(tty[i].termios, new)]
          /\ hist' = Touch(s)
    /\ UNCHANGED <<rfcomm_dev_list, rfcomm_dev_lock, dev, dlc, module_refs,
                   panic>>

\* rfcomm_tty_set_termios() returns to the tty layer
rfcomm_tty_set_termios_ret(c) ==
    /\ At(c, "termios_ret")
    /\ ctx' = [ctx EXCEPT ![c].pc = "opened", ![c].out = <<>>,
                          ![c].old = InitTermios]
    /\ UNCHANGED <<rfcomm_dev_list, rfcomm_dev_lock, dev, dlc, tty, module_refs,
                   panic, hist, sched>>

\* ------------------------------------------------------------ write
ENOTCONN == -107
\* what alloc_skb() adds to the payload: the headroom and the skb itself
SkbOverhead == 1
SkbTruesize(size) == size + SkbOverhead

\* a room that is zero while the DLC has no credits
RoomCreditsOnly(d) == dlc[d].mtu * dlc[d].tx_credits

\* rfcomm_room(): mtu * (tx_credits ?: 1)
rfcomm_room(d) ==
    dlc[d].mtu * (IF dlc[d].tx_credits # 0 THEN dlc[d].tx_credits ELSE 1)

\* rfcomm_tty_write_room() for the tty with index i: the room less the
\* accounted bytes, a negative difference giving 0
rfcomm_tty_write_room(i) ==
    LET s == tty[i].driver_data IN
    IF s = Null \/ dev[s].dlc = Null THEN 0
    ELSE LET room == rfcomm_room(dev[s].dlc) - dev[s].wmem_alloc IN
         IF room < 0 THEN 0 ELSE room

\* a write that reports the error whenever the loop ended with one
WriteRetErrFirst(sent, err) == IF err < 0 THEN err ELSE sent

\* rfcomm_tty_write(): return sent ? sent : err
WriteRet(sent, err) == IF sent # 0 THEN sent ELSE err

\* rfcomm_tty_write() is called for an open tty with a buffer of count bytes
rfcomm_tty_write(c) ==
    /\ At(c, "opened")
    /\ MayStart(c)
    /\ ctx[c].ret = 0
    /\ tty[ctx[c].idx].driver_data # Null
    /\ sched.writes # 0
    /\ sched' = [sched EXCEPT !.writes = Spend(@)]
    /\ \E count \in 0..MaxWrite :
         ctx' = [ctx EXCEPT ![c].pc = "write_loop",
                            ![c].wr = [count |-> count, sent |-> 0, err |-> 0,
                                       total |-> count, ret |-> 0],
                            ![c].out = <<>>]
    /\ UNCHANGED <<rfcomm_dev_list, rfcomm_dev_lock, dev, dlc, tty, module_refs,
                   panic, hist>>

\* rfcomm_tty_write(): one pass of the loop.  rfcomm_wmalloc() gives a chunk
\* of min(count, mtu) bytes only while wmem_alloc is below the room, and
\* alloc_skb() may fail; rfcomm_set_owner_w() takes a reference and accounts
\* the truesize; a chunk that rfcomm_dlc_send() refuses is freed again
rfcomm_tty_write_chunk(c) ==
    /\ At(c, "write_loop")
    /\ LET s    == tty[ctx[c].idx].driver_data
           d    == dev[s].dlc
           w    == ctx[c].wr
           size == IF w.count < dlc[d].mtu THEN w.count ELSE dlc[d].mtu
       IN
       /\ s # Null
       /\ d # Null
       /\ hist' = Touch(s)
       /\ IF w.count = 0
          THEN /\ ctx' = [ctx EXCEPT ![c].pc = "write_ret",
                                     ![c].wr.ret = WriteRet(w.sent, w.err)]
               /\ UNCHANGED <<dev, dlc>>
          ELSE \E alloc \in BOOLEAN :
               IF ~(dev[s].wmem_alloc < rfcomm_room(d)) \/ ~alloc
               THEN /\ ctx' = [ctx EXCEPT ![c].pc = "write_ret",
                                          ![c].wr.ret = WriteRet(w.sent, w.err)]
                    /\ UNCHANGED <<dev, dlc>>
               ELSE IF dlc[d].state # "CONNECTED"
               THEN \* rfcomm_dlc_send() fails, kfree_skb() undoes the accounting
                    /\ ctx' = [ctx EXCEPT ![c].pc = "write_ret",
                                          ![c].wr.err = ENOTCONN,
                                          ![c].wr.ret = WriteRet(w.sent, ENOTCONN)]
                    /\ UNCHANGED <<dev, dlc>>
               ELSE /\ dev' = [dev EXCEPT ![s].kref = @ + 1,
                              ![s].wmem_alloc = @ + SkbTruesize(size)]
                    /\ dlc' = [dlc EXCEPT ![d].txq =
                                 Append(@, [sk |-> s, truesize |-> SkbTruesize(size)])]
                    /\ ctx' = [ctx EXCEPT
                                 ![c].wr.sent = @ + size,
                                 ![c].wr.count = @ - size,
                                 ![c].out = Append(@, [off |-> w.sent, len |-> size])]
    /\ UNCHANGED <<rfcomm_dev_list, rfcomm_dev_lock, tty, module_refs, panic,
                   sched>>

\* rfcomm_tty_write() returns to the tty layer
rfcomm_tty_write_ret(c) ==
    /\ At(c, "write_ret")
    /\ ctx' = [ctx EXCEPT ![c].pc = "opened", ![c].wr = IdleCtx.wr,
                          ![c].out = <<>>]
    /\ UNCHANGED <<rfcomm_dev_list, rfcomm_dev_lock, dev, dlc, tty, module_refs,
                   panic, hist, sched>>

\* the truesize of the chunks of queue q that are accounted to record s
RECURSIVE Accounted(_, _)
Accounted(q, s) ==
    IF q = <<>> THEN 0
    ELSE (IF Head(q).sk = s THEN Head(q).truesize ELSE 0) + Accounted(Tail(q), s)

\* a destructor that puts the reference and leaves wmem_alloc as it is
WfreeKeepsCount(c) ==
    /\ MayStart(c)
    /\ Idle(c)
    /\ c \in Krfcommd
    /\ \E d \in Dlcs :
         /\ dlc[d].txq # <<>>
         /\ LET s == Head(dlc[d].txq).sk IN
            /\ dlc' = [dlc EXCEPT ![d].txq = Tail(@)]
            /\ dev' = dev
            /\ ctx' = [ctx EXCEPT ![c].pc = "put", ![c].tgt = s, ![c].dev = s,
                                  ![c].nput = 1, ![c].after = "idle"]
            /\ hist' = Touch(s)
    /\ UNCHANGED <<rfcomm_dev_list, rfcomm_dev_lock, tty, module_refs, panic,
                   sched>>

\* rfcomm_wfree(), the destructor of a chunk the RFCOMM core frees once it
\* is transmitted or purged: the accounting is undone and the reference put
rfcomm_wfree(c) ==
    /\ MayStart(c)
    /\ Idle(c)
    /\ c \in Krfcommd
    /\ \E d \in Dlcs :
         /\ dlc[d].txq # <<>>
         /\ LET skb == Head(dlc[d].txq)
                s   == skb.sk
            IN
            /\ dlc' = [dlc EXCEPT ![d].txq = Tail(@)]
            /\ dev' = [dev EXCEPT ![s].wmem_alloc = @ - skb.truesize]
            /\ ctx' = [ctx EXCEPT ![c].pc = "put", ![c].tgt = s, ![c].dev = s,
                                  ![c].nput = 1, ![c].after = "idle"]
            /\ hist' = Touch(s)
    /\ UNCHANGED <<rfcomm_dev_list, rfcomm_dev_lock, tty, module_refs, panic,
                   sched>>

\* rfcomm_tty_flush_buffer(): skb_queue_purge(&dev->dlc->tx_queue) frees
\* every chunk that waits for transmission; rfcomm_wfree() runs for each of
\* them, undoes its accounting and puts its reference
rfcomm_tty_flush_buffer(c) ==
    /\ At(c, "opened")
    /\ MayStart(c)
    /\ ctx[c].ret = 0
    /\ LET s == tty[ctx[c].idx].driver_data
           d == dev[s].dlc
       IN
       /\ s # Null
       /\ d # Null
       /\ dlc[d].txq # <<>>
       /\ \A i \in DOMAIN dlc[d].txq : dlc[d].txq[i].sk = s
       /\ dlc' = [dlc EXCEPT ![d].txq = <<>>]
       /\ dev' = [dev EXCEPT ![s].wmem_alloc = @ - Accounted(dlc[d].txq, s)]
       /\ ctx' = [ctx EXCEPT ![c].pc = "put", ![c].tgt = s,
                             ![c].nput = Len(dlc[d].txq), ![c].after = "opened"]
       /\ hist' = Touch(s)
    /\ UNCHANGED <<rfcomm_dev_list, rfcomm_dev_lock, tty, module_refs, panic,
                   sched>>

\* rfcomm_tty_close(), called by the tty layer after every open(), also a
\* failed one: --dev->port.count under port.lock
rfcomm_tty_close(c) ==
    /\ At(c, "opened")
    /\ MayStart(c)
    /\ LET i == ctx[c].idx
           s == tty[i].driver_data
       IN
       /\ tty[i].lock = "none"
       /\ IF s = Null
          THEN /\ ctx' = [ctx EXCEPT ![c] = Reset(@)]
               /\ tty' = TtyRelease(tty, c, i)
               /\ UNCHANGED <<dev, hist>>
          ELSE /\ dev' = [dev EXCEPT ![s].count = @ - 1]
               /\ tty' = [tty EXCEPT ![i].lock = c]
               /\ hist' = [Touch(s) EXCEPT
                             !.unmatched = @ \/ ctx[c].ret = ENODEV]
               /\ ctx' = [ctx EXCEPT ![c] =
                     IF dev[s].count - 1 = 0
                     THEN [@ EXCEPT !.pc = "close_last", !.tgt = s]
                     ELSE [@ EXCEPT !.pc = "put", !.tgt = s, !.nput = 1,
                                    !.after = "close_end"]]
    /\ UNCHANGED <<rfcomm_dev_list, rfcomm_dev_lock, dlc, module_refs, panic, sched>>

\* a last close() that leaves a released record in the list
CloseLastNoUnlink(c) ==
    /\ At(c, "close_last")
    /\ LET s == ctx[c].tgt
           d == dev[s].dlc
           i == ctx[c].idx
       IN
       /\ d # Null => dlc[d].lock = "none"
       /\ rfcomm_dev_lock = "none"
       /\ dlc' = rfcomm_dlc_close(dlc, d)
       /\ dev' = [dev EXCEPT ![s].attached = FALSE, ![s].tty = FALSE]
       /\ tty' = [tty EXCEPT ![i].driver_data = Null]
       /\ rfcomm_dev_list' = rfcomm_dev_list
       /\ ctx' = [ctx EXCEPT ![c].pc = "put",
                    ![c].nput = IF dev[s].released THEN 2 ELSE 1,
                    ![c].after = "close_end"]
       /\ hist' = [Touch(s) EXCEPT !.nclose = @ + 1]
    /\ UNCHANGED <<rfcomm_dev_lock, module_refs, panic, sched>>

\* a last close() that leaves the tty attached
CloseLastKeepsTty(c) ==
    /\ At(c, "close_last")
    /\ LET s == ctx[c].tgt
           d == dev[s].dlc
           i == ctx[c].idx
       IN
       /\ d # Null => dlc[d].lock = "none"
       /\ rfcomm_dev_lock = "none"
       /\ dlc' = rfcomm_dlc_close(dlc, d)
       /\ dev' = dev
       /\ tty' = [tty EXCEPT ![i].driver_data = Null]
       /\ rfcomm_dev_list' = IF dev[s].released
                             THEN ListDel(rfcomm_dev_list, s)
                             ELSE rfcomm_dev_list
       /\ ctx' = [ctx EXCEPT ![c].pc = "put",
                    ![c].nput = IF dev[s].released THEN 2 ELSE 1,
                    ![c].after = "close_end"]
       /\ hist' = [Touch(s) EXCEPT !.nclose = @ + 1]
    /\ UNCHANGED <<rfcomm_dev_lock, module_refs, panic, sched>>

\* rfcomm_tty_close() of the last opener: rfcomm_dlc_close(), the tty is
\* detached under the DLC lock; a device already marked released is unlinked
\* and the registry's reference is put before the opener's
rfcomm_tty_close_last(c) ==
    /\ At(c, "close_last")
    /\ LET s == ctx[c].tgt
           d == dev[s].dlc
           i == ctx[c].idx
       IN
       /\ d # Null => dlc[d].lock = "none"
       /\ rfcomm_dev_lock = "none"
       /\ dlc' = rfcomm_dlc_close(dlc, d)
       /\ dev' = [dev EXCEPT ![s].attached = FALSE, ![s].tty = FALSE]
       /\ tty' = [tty EXCEPT ![i].driver_data = Null]
       /\ rfcomm_dev_list' = IF dev[s].released
                             THEN ListDel(rfcomm_dev_list, s)
                             ELSE rfcomm_dev_list
       /\ ctx' = [ctx EXCEPT ![c].pc = "put",
                    ![c].nput = IF dev[s].released THEN 2 ELSE 1,
                    ![c].after = "close_end"]
       /\ hist' = [Touch(s) EXCEPT !.nclose = @ + 1]
    /\ UNCHANGED <<rfcomm_dev_lock, module_refs, panic, sched>>

\* ------------------------------------------------------ DLC callbacks
\* the state changes the RFCOMM core reports for a DLC of the driver:
\* <<new state, error code>>
DlcEvents(d) ==
    (IF dlc[d].state = "CONNECTING" THEN {<<"CONNECTED", 0>>} ELSE {}) \cup
    (IF dlc[d].state \in {"CONNECTING", "CONNECTED"} \/ dlc[d].pend_close
     THEN {<<"CLOSED", e>> : e \in ChanErrs} ELSE {})

\* rfcomm_dev_data_ready() delivering every chunk to the read buffer at once,
\* whether or not chunks are waiting in dev->pending
DataReadyDirect(dv, s, n) ==
    [dv EXCEPT ![s].rx = tty_insert_flip_string(@, <<n>>)]

\* rfcomm_dev_data_ready() for a DLC owned by record s: while dev->pending
\* is not empty the chunk goes to its tail, otherwise into the read buffer
DataReady(dv, s, n) ==
    IF dv[s].pending # <<>>
    THEN [dv EXCEPT ![s].pending = Append(@, n)]
    ELSE [dv EXCEPT ![s].rx = tty_insert_flip_string(@, <<n>>)]

\* rfcomm_dev_data_ready(), called by the RFCOMM core with the DLC locked
\* for a chunk received on a connected DLC; without an owner the chunk is
\* freed
rfcomm_dev_data_ready(c) ==
    /\ MayStart(c)
    /\ Idle(c)
    /\ c \in Krfcommd
    /\ \E d \in Dlcs :
         /\ dlc[d].st = "live"
         /\ dlc[d].cb = "dev"
         /\ dlc[d].lock = "none"
         /\ dlc[d].state = "CONNECTED"
         /\ dlc[d].seq < MaxRx
         /\ LET s == dlc[d].owner
                n == dlc[d].seq + 1
            IN
            /\ dlc' = [dlc EXCEPT ![d].seq = n]
            /\ IF s = Null
               THEN UNCHANGED <<dev, hist>>
               ELSE /\ dev' = DataReady(dev, s, n)
                    /\ hist' = [Touch(s) EXCEPT !.nqueued =
                                  @ + IF dev[s].pending # <<>> THEN 1 ELSE 0]
    /\ UNCHANGED <<rfcomm_dev_list, rfcomm_dev_lock, tty, ctx, module_refs,
                   panic, sched>>

\* a wake_up_interruptible() that finds nobody on the wait queue
WakeNone(cx, s) == cx

\* wake_up_interruptible(&dev->wait): every task on the wait queue of the
\* record becomes runnable
WakeUp(cx, s) ==
    [u \in Ctx |->
        IF cx[u].dev = s /\ cx[u].pc \in {"open_wait", "open_sched"}
        THEN [cx[u] EXCEPT !.tstate = "running"]
        ELSE cx[u]]

\* rfcomm_dev_state_change(), called with the DLC locked: the error is stored
\* and the waiter woken; on BT_CLOSED an attached tty is hung up, and an
\* unattached release-on-hang-up device goes on to be deleted
rfcomm_dev_state_change(c) ==
    /\ MayStart(c)
    /\ Idle(c)
    /\ c \in Krfcommd
    /\ \E d \in Dlcs :
         /\ dlc[d].st = "live"
         /\ dlc[d].cb = "dev"
         /\ dlc[d].lock = "none"
         /\ \E ev \in DlcEvents(d) :
              LET s  == dlc[d].owner
                  dl == [dlc EXCEPT ![d].state = ev[1], ![d].pend_close =
                                      IF ev[1] = "CLOSED" THEN FALSE ELSE @]
              IN
              IF s = Null
              THEN /\ dlc' = dl
                   /\ UNCHANGED <<dev, tty, ctx, hist>>
              ELSE /\ dev' = [dev EXCEPT ![s].err = ev[2]]
                   /\ hist' = Touch(s)
                   /\ IF ev[1] # "CLOSED"
                      THEN /\ dlc' = dl
                           /\ ctx' = WakeUp(ctx, s)
                           /\ tty' = tty
                      ELSE IF dev[s].tty
                      THEN \* tty_hangup()
                           /\ dlc' = dl
                           /\ tty' = [tty EXCEPT ![dev[s].id].hup = TRUE]
                           /\ ctx' = WakeUp(ctx, s)
                      ELSE IF dev[s].onhup
                      THEN /\ dlc' = [dl EXCEPT ![d].lock = c]
                           /\ ctx' = [WakeUp(ctx, s) EXCEPT ![c].pc = "sc_unlock",
                                        ![c].dev = s, ![c].did = d]
                           /\ tty' = tty
                      ELSE /\ dlc' = dl
                           /\ ctx' = WakeUp(ctx, s)
                           /\ tty' = tty
    /\ UNCHANGED <<rfcomm_dev_list, rfcomm_dev_lock, module_refs, panic, sched>>

\* a state change that goes to the registry with the DLC still locked
StateChangeKeepsLock(c) ==
    /\ At(c, "sc_unlock")
    /\ ctx' = [ctx EXCEPT ![c].pc = "sc_get"]
    /\ UNCHANGED <<rfcomm_dev_list, rfcomm_dev_lock, dev, dlc, tty, module_refs,
                   panic, hist, sched>>

\* rfcomm_dev_state_change(): rfcomm_dlc_unlock() before the registry is used
rfcomm_dev_state_change_unlock(c) ==
    /\ At(c, "sc_unlock")
    /\ dlc' = [dlc EXCEPT ![ctx[c].did].lock = "none"]
    /\ ctx' = [ctx EXCEPT ![c].pc = "sc_get"]
    /\ UNCHANGED <<rfcomm_dev_list, rfcomm_dev_lock, dev, tty, module_refs,
                   panic, hist, sched>>

\* rfcomm_dev_state_change(): rfcomm_dev_get(dev->id); when a record is
\* found, rfcomm_dev_del(dev) and tty_port_put(&dev->port) follow
rfcomm_dev_state_change_get(c) ==
    /\ At(c, "sc_get")
    /\ rfcomm_dev_lock = "none"
    /\ LET s == ctx[c].dev
           g == rfcomm_dev_get(dev[s].id)
       IN
       /\ hist' = Touch(s)
       /\ IF g = Null
          THEN /\ ctx' = [ctx EXCEPT ![c] = Reset(@)]
               /\ dev' = dev
          ELSE /\ dev' = [dev EXCEPT ![g].kref = @ + 1]
               /\ ctx' = [ctx EXCEPT ![c].pc = "del", ![c].tgt = s,
                            ![c].after = "idle"]
    /\ UNCHANGED <<rfcomm_dev_list, rfcomm_dev_lock, dlc, tty, module_refs,
                   panic, sched>>

\* --------------------------------------------------------- behaviours
InitCommon ==
    /\ rfcomm_dev_list = <<>>
    /\ rfcomm_dev_lock = "none"
    /\ dev = [s \in Slots |-> ZeroDev]
    /\ dlc = [d \in Dlcs |-> NoDlc]
    /\ tty = [i \in Ids |-> NoTty]
    /\ module_refs = 0
    /\ panic = "none"
    /\ hist = ZeroHist

\* the TTY side: one device, two users, one release request, the RFCOMM
\* core thread and the hang-up work, all interleaved
Init ==
    /\ InitCommon
    /\ ctx = [c \in Ctx |->
                [IdleCtx EXCEPT !.left = IF c = "r1" THEN MaxRelease
                                         ELSE IF c \in Users THEN MaxOpen
                                         ELSE 0]]
    /\ sched = [mode |-> "conc", creates |-> 1, regfail |-> 0,
                req_ids |-> {0}, rel_ids |-> {0}, open_ids |-> {0},
                onhup |-> BOOLEAN, reuse |-> BOOLEAN, now |-> BOOLEAN,
                pre |-> 0..MaxPre, mtus |-> {1}, credits |-> {0},
                writes |-> 0, termios |-> 0]

\* the registry side: create requests (one may fail to register), two
\* release requests and one user, all interleaved, no channel events
InitRel ==
    /\ InitCommon
    /\ ctx = [c \in Ctx |->
                [IdleCtx EXCEPT !.left = IF c \in Releasers THEN MaxRelease
                                         ELSE IF c = "u1" THEN MaxOpen
                                         ELSE 0]]
    /\ sched = [mode |-> "conc", creates |-> MaxCreate, regfail |-> MaxRegFail,
                req_ids |-> {0}, rel_ids |-> {0}, open_ids |-> {0},
                onhup |-> BOOLEAN, reuse |-> BOOLEAN, now |-> {FALSE},
                pre |-> 0..MaxPre, mtus |-> {1}, credits |-> {0},
                writes |-> 0, termios |-> 0]

\* one caller at a time, no channel events: the registry under every
\* sequence of create, release, open and close requests
InitSeq ==
    /\ InitCommon
    /\ ctx = [c \in Ctx |->
                [IdleCtx EXCEPT !.left = IF c = "r1" THEN -1
                                         ELSE IF c = "u1" THEN MaxOpen
                                         ELSE 0]]
    /\ sched = [mode |-> "seq", creates |-> -1, regfail |-> 0,
                req_ids |-> {-1, 1, RFCOMM_MAX_DEV},
                rel_ids |-> Ids, open_ids |-> Ids,
                onhup |-> {FALSE}, reuse |-> {FALSE}, now |-> {FALSE},
                pre |-> {0}, mtus |-> {1}, credits |-> {0}, writes |-> 0, termios |-> 0]

Next ==
    \E c \in Ctx :
        \/ rfcomm_create_dev(c)
        \/ rfcomm_dev_add_list(c)
        \/ rfcomm_dev_add_dlc(c)
        \/ rfcomm_dev_add_register(c)
        \/ rfcomm_release_dev(c)
        \/ rfcomm_release_vhangup(c)
        \/ rfcomm_tty_hangup(c)
        \/ rfcomm_dev_del(c)
        \/ rfcomm_dev_del_unlink(c)
        \/ tty_port_put(c)
        \/ rfcomm_dev_destruct(c)
        \/ rfcomm_tty_open(c)
        \/ rfcomm_tty_open_count(c)
        \/ rfcomm_tty_open_attach(c)
        \/ rfcomm_tty_open_wait(c)
        \/ rfcomm_tty_open_sched(c)
        \/ rfcomm_tty_open_done(c)
        \/ rfcomm_tty_close(c)
        \/ rfcomm_tty_close_last(c)
        \/ rfcomm_dev_state_change(c)
        \/ rfcomm_dev_state_change_unlock(c)
        \/ rfcomm_dev_state_change_get(c)

Spec == Init /\ [][Next]_vars

NextSeq ==
    \E c \in Ctx :
        \/ rfcomm_create_dev(c)
        \/ rfcomm_dev_add_list(c)
        \/ rfcomm_dev_add_dlc(c)
        \/ rfcomm_dev_add_register(c)
        \/ rfcomm_dev_add_free(c)
        \/ rfcomm_release_dev(c)
        \/ rfcomm_release_vhangup(c)
        \/ rfcomm_dev_del(c)
        \/ rfcomm_dev_del_unlink(c)
        \/ tty_port_put(c)
        \/ rfcomm_dev_destruct(c)
        \/ rfcomm_tty_open(c)
        \/ rfcomm_tty_open_count(c)
        \/ rfcomm_tty_open_attach(c)
        \/ rfcomm_tty_open_wait(c)
        \/ rfcomm_tty_open_sched(c)
        \/ rfcomm_tty_open_done(c)
        \/ rfcomm_tty_close(c)
        \/ rfcomm_tty_close_last(c)

SpecSeq == InitSeq /\ [][NextSeq]_vars

\* the actions of NextSeq run interleaved
SpecRel == InitRel /\ [][NextSeq]_vars

\* the data path: one device that takes over a connected DLC with buffered
\* chunks, one user, and the RFCOMM core thread delivering chunks and state
\* changes
InitData ==
    /\ InitCommon
    /\ ctx = [c \in Ctx |->
                [IdleCtx EXCEPT !.left = IF c = "u1" THEN MaxOpen ELSE 0]]
    /\ sched = [mode |-> "conc", creates |-> 1, regfail |-> 0,
                req_ids |-> {0}, rel_ids |-> {0}, open_ids |-> {0},
                onhup |-> {FALSE}, reuse |-> {TRUE}, now |-> {FALSE},
                pre |-> 0..MaxHandoff, mtus |-> {1}, credits |-> {0},
                writes |-> 0, termios |-> 0]

NextData ==
    \E c \in Ctx :
        \/ rfcomm_create_dev(c)
        \/ rfcomm_dev_add_list(c)
        \/ rfcomm_dev_add_dlc(c)
        \/ rfcomm_dev_add_register(c)
        \/ tty_port_put(c)
        \/ rfcomm_tty_open(c)
        \/ rfcomm_tty_open_count(c)
        \/ rfcomm_tty_open_attach(c)
        \/ rfcomm_tty_open_wait(c)
        \/ rfcomm_tty_open_sched(c)
        \/ rfcomm_tty_open_done(c)
        \/ rfcomm_tty_close(c)
        \/ rfcomm_tty_close_last(c)
        \/ rfcomm_tty_hangup(c)
        \/ rfcomm_dev_data_ready(c)
        \/ rfcomm_dev_state_change(c)

SpecData == InitData /\ [][NextData]_vars

\* the write path: one device on a connected DLC with an mtu and transmit
\* credits, one user that opens it and writes, and the RFCOMM core thread
\* that frees transmitted chunks and reports state changes
InitWrite ==
    /\ InitCommon
    /\ ctx = [c \in Ctx |->
                [IdleCtx EXCEPT !.left = IF c = "u1" THEN MaxOpen ELSE 0]]
    /\ sched = [mode |-> "conc", creates |-> 1, regfail |-> 0,
                req_ids |-> {0}, rel_ids |-> {0}, open_ids |-> {0},
                onhup |-> {FALSE}, reuse |-> {TRUE}, now |-> {FALSE},
                pre |-> {0}, mtus |-> 1..MaxMtu, credits |-> 0..MaxCredits,
                writes |-> MaxWrites, termios |-> 0]

NextWrite ==
    \E c \in Ctx :
        \/ rfcomm_create_dev(c)
        \/ rfcomm_dev_add_list(c)
        \/ rfcomm_dev_add_dlc(c)
        \/ rfcomm_dev_add_register(c)
        \/ tty_port_put(c)
        \/ rfcomm_tty_open(c)
        \/ rfcomm_tty_open_count(c)
        \/ rfcomm_tty_open_attach(c)
        \/ rfcomm_tty_open_wait(c)
        \/ rfcomm_tty_open_done(c)
        \/ rfcomm_tty_write(c)
        \/ rfcomm_tty_write_chunk(c)
        \/ rfcomm_tty_write_ret(c)
        \/ rfcomm_wfree(c)
        \/ rfcomm_tty_flush_buffer(c)
        \/ rfcomm_tty_close(c)
        \/ rfcomm_tty_close_last(c)
        \/ rfcomm_dev_state_change(c)

SpecWrite == InitWrite /\ [][NextWrite]_vars

\* the settings: one device on a connected DLC, one user that opens it and
\* changes the settings of the tty
InitTermiosSpec ==
    /\ InitCommon
    /\ ctx = [c \in Ctx |->
                [IdleCtx EXCEPT !.left = IF c = "u1" THEN MaxOpen ELSE 0]]
    /\ sched = [mode |-> "conc", creates |-> 1, regfail |-> 0,
                req_ids |-> {0}, rel_ids |-> {0}, open_ids |-> {0},
                onhup |-> {FALSE}, reuse |-> {TRUE}, now |-> {FALSE},
                pre |-> {0}, mtus |-> {1}, credits |-> {0}, writes |-> 0,
                termios |-> MaxTermios]

NextTermios ==
    \E c \in Ctx :
        \/ rfcomm_create_dev(c)
        \/ rfcomm_dev_add_list(c)
        \/ rfcomm_dev_add_dlc(c)
        \/ rfcomm_dev_add_register(c)
        \/ tty_port_put(c)
        \/ rfcomm_tty_open(c)
        \/ rfcomm_tty_open_count(c)
        \/ rfcomm_tty_open_attach(c)
        \/ rfcomm_tty_open_wait(c)
        \/ rfcomm_tty_open_done(c)
        \/ rfcomm_tty_set_termios(c)
        \/ rfcomm_tty_set_termios_ret(c)
        \/ rfcomm_tty_close(c)
        \/ rfcomm_tty_close_last(c)

SpecTermios == InitTermiosSpec /\ [][NextTermios]_vars

\* the hang-up path: release-on-hang-up and plain devices created one after
\* the other under id 0, one user, the RFCOMM core thread delivering state
\* changes and the hang-up work
InitHup ==
    /\ InitCommon
    /\ ctx = [c \in Ctx |->
                [IdleCtx EXCEPT !.left = IF c = "u1" THEN MaxOpen ELSE 0]]
    /\ sched = [mode |-> "conc", creates |-> MaxCreate, regfail |-> 0,
                req_ids |-> {0}, rel_ids |-> {0}, open_ids |-> {0},
                onhup |-> BOOLEAN, reuse |-> {TRUE}, now |-> {FALSE},
                pre |-> {0}, mtus |-> {1}, credits |-> {0}, writes |-> 0,
                termios |-> 0]

NextHup ==
    \E c \in Ctx :
        \/ rfcomm_create_dev(c)
        \/ rfcomm_dev_add_list(c)
        \/ rfcomm_dev_add_dlc(c)
        \/ rfcomm_dev_add_register(c)
        \/ rfcomm_tty_hangup(c)
        \/ rfcomm_dev_del(c)
        \/ rfcomm_dev_del_unlink(c)
        \/ tty_port_put(c)
        \/ rfcomm_dev_destruct(c)
        \/ rfcomm_tty_open(c)
        \/ rfcomm_tty_open_count(c)
        \/ rfcomm_tty_open_attach(c)
        \/ rfcomm_tty_open_wait(c)
        \/ rfcomm_tty_open_sched(c)
        \/ rfcomm_tty_open_done(c)
        \/ rfcomm_tty_close(c)
        \/ rfcomm_tty_close_last(c)
        \/ rfcomm_dev_state_change(c)
        \/ rfcomm_dev_state_change_unlock(c)
        \/ rfcomm_dev_state_change_get(c)

SpecHup == InitHup /\ [][NextHup]_vars

\* the wait for the connection: one device, one user whose open() has to
\* wait for a new DLC to connect, the RFCOMM core thread and the hang-up
\* work
InitLive ==
    /\ InitCommon
    /\ ctx = [c \in Ctx |->
                [IdleCtx EXCEPT !.left = IF c = "u1" THEN MaxOpen ELSE 0]]
    /\ sched = [mode |-> "conc", creates |-> 1, regfail |-> 0,
                req_ids |-> {0}, rel_ids |-> {0}, open_ids |-> {0},
                onhup |-> BOOLEAN, reuse |-> BOOLEAN, now |-> {FALSE},
                pre |-> {0}, mtus |-> {1}, credits |-> {0}, writes |-> 0,
                termios |-> 0]

\* a step of a call that is in progress; schedule() returns to a task that
\* was woken (a signal may arrive, but none has to)
Progress(c) ==
    \/ rfcomm_dev_add_list(c)
    \/ rfcomm_dev_add_dlc(c)
    \/ rfcomm_dev_add_register(c)
    \/ rfcomm_tty_hangup(c)
    \/ rfcomm_dev_del(c)
    \/ rfcomm_dev_del_unlink(c)
    \/ tty_port_put(c)
    \/ rfcomm_dev_destruct(c)
    \/ rfcomm_tty_open_count(c)
    \/ rfcomm_tty_open_attach(c)
    \/ rfcomm_tty_open_wait(c)
    \/ ctx[c].tstate = "running" /\ rfcomm_tty_open_sched(c)
    \/ rfcomm_tty_open_done(c)
    \/ rfcomm_tty_close_last(c)
    \/ rfcomm_dev_state_change_unlock(c)
    \/ rfcomm_dev_state_change_get(c)

\* every call in progress is scheduled again; requests and channel events
\* come when they come
SpecLive ==
    /\ InitLive /\ [][NextHup]_vars
    /\ \A c \in Ctx : WF_vars(Progress(c))

\* the control surface: two devices with ids chosen by the driver, one user
\* and one release request for id 0, and a caller of list and info
InitCtl ==
    /\ InitCommon
    /\ ctx = [c \in Ctx |->
                [IdleCtx EXCEPT !.left = IF c = "r1" THEN MaxRelease
                                         ELSE IF c = "u1" THEN MaxOpen
                                         ELSE 0]]
    /\ sched = [mode |-> "conc", creates |-> MaxCreate, regfail |-> 0,
                req_ids |-> {-1}, rel_ids |-> {0}, open_ids |-> {0},
                onhup |-> {FALSE}, reuse |-> BOOLEAN, now |-> {FALSE},
                pre |-> {0}, mtus |-> {1}, credits |-> {0}, writes |-> 0, termios |-> 0]

NextCtl ==
    \E c \in Ctx :
        \/ rfcomm_create_dev(c)
        \/ rfcomm_dev_add_list(c)
        \/ rfcomm_dev_add_dlc(c)
        \/ rfcomm_dev_add_register(c)
        \/ rfcomm_release_dev(c)
        \/ rfcomm_release_vhangup(c)
        \/ rfcomm_dev_del(c)
        \/ rfcomm_dev_del_unlink(c)
        \/ tty_port_put(c)
        \/ rfcomm_dev_destruct(c)
        \/ rfcomm_tty_open(c)
        \/ rfcomm_tty_open_count(c)
        \/ rfcomm_tty_open_attach(c)
        \/ rfcomm_tty_open_wait(c)
        \/ rfcomm_tty_open_sched(c)
        \/ rfcomm_tty_open_done(c)
        \/ rfcomm_tty_close(c)
        \/ rfcomm_tty_close_last(c)
        \/ rfcomm_get_dev_list(c)
        \/ rfcomm_get_dev_info(c)
        \/ rfcomm_dev_ioctl_ret(c)

SpecCtl == InitCtl /\ [][NextCtl]_vars

TypeOK ==
    /\ \A s \in ListSlots : s \in Slots
    /\ panic \in {"none", "BUG_del", "BUG_destruct"}

\* ------------------------------------------------------------- claims
\* the ids of the records in the registry
RegIds == {dev[s].id : s \in ListSlots}
\* the DLC locks a context holds
HeldDlcs(c) == {d \in Dlcs : dlc[d].lock = c}
\* positions from which the next step of a context takes rfcomm_dev_lock
RegistryEntry == {"add_list", "del_unlink", "sc_get", "close_last"}
UsersIdle == \A u \in Users : ctx[u].pc = "idle"

C2_DestroyOnlyUnlinked ==
    /\ panic # "BUG_destruct"
    /\ \A s \in ListSlots : dev[s].kref > 0

\* C3: rfcomm_dev_del() runs at most once per record: the BUG_ON on
\* RFCOMM_TTY_RELEASED being set already is never reached.
C3_DelOnce == panic # "BUG_del"

\* C4: rfcomm_dev_lock is never taken by a context that holds a DLC lock: a
\* context that holds the registry lock, or whose next step takes it, holds
\* no DLC lock, and a create that waits for a DLC lock under the registry
\* lock never faces a holder of that DLC lock that waits for the registry.
C4_LockOrder ==
    /\ \A c \in Ctx :
         (rfcomm_dev_lock = c \/ ctx[c].pc \in RegistryEntry) => HeldDlcs(c) = {}
    /\ \A c \in Creators, o \in Ctx :
         ~ /\ ctx[c].pc = "add_dlc"
           /\ rfcomm_dev_lock = c
           /\ dlc[ctx[c].did].lock = o
           /\ ctx[o].pc \in RegistryEntry

\* the state-change callback has dropped the DLC lock it was called with and
\* is about to look the device up in the registry
C4_Witness ==
    \E c \in Krfcommd :
        /\ ctx[c].pc = "sc_get"
        /\ dlc[ctx[c].did].st = "live"
        /\ dlc[ctx[c].did].lock = "none"

\* C5: a create with a negative requested id takes the smallest non-negative
\* id that no record of the registry has, and fails only when no id of the
\* range is free.
C5_AnyLowest ==
    [][\A c \in Creators :
         (ctx[c].pc = "add_list" /\ ctx[c].req.dev_id < 0 /\ ctx'[c] # ctx[c]) =>
            IF ctx'[c].pc = "add_dlc"
            THEN LET id == dev'[ctx[c].dev].id IN
                 /\ id >= 0
                 /\ id \notin RegIds
                 /\ \A j \in 0..(id - 1) : j \in RegIds
            ELSE Ids \subseteq RegIds]_vars

\* 'any' has just been given id 1 while 0 and 2 are in the registry: the id
\* that a release freed is used again
C5_Witness ==
    \E c \in Creators :
        /\ ctx[c].pc = "add_dlc"
        /\ ctx[c].req.dev_id < 0
        /\ dev[ctx[c].dev].id = 1
        /\ RegIds = {0, 1, 2}

\* C6: a create for a specific id that is in the registry fails with
\* EADDRINUSE and changes nothing: the list, the records, the module
\* reference and the DLC of the caller's socket (callbacks, owner, buffered
\* data) are as before the call.
C6_InUseNoChange ==
    [][\A c \in Creators :
         LET s == ctx[c].dev IN
         /\ (/\ ctx[c].pc = "add_list"
             /\ ctx'[c] # ctx[c]
             /\ ctx[c].req.dev_id \in RegIds) =>
                /\ ctx'[c].pc = "add_free"
                /\ ctx'[c].ret = EADDRINUSE
                /\ UNCHANGED <<rfcomm_dev_list, dev, dlc, module_refs>>
         /\ (/\ ctx[c].pc = "add_free"
             /\ ctx[c].ret = EADDRINUSE
             /\ ctx'[c] # ctx[c]) =>
                /\ UNCHANGED <<rfcomm_dev_list, module_refs>>
                /\ \A t \in Slots \ {s} : dev'[t] = dev[t]
                /\ ctx[c].req.reuse => dlc' = dlc]_vars

\* a create that reuses the DLC of a socket with buffered data has failed
\* with EADDRINUSE
C6_Witness ==
    \E c \in Creators :
        /\ ctx[c].pc = "add_free"
        /\ ctx[c].ret = EADDRINUSE
        /\ ctx[c].req.reuse
        /\ dlc[ctx[c].did].rcvq # <<>>
        /\ dlc[ctx[c].did].owner = SkOwner

\* C7: the id of every record a create links lies in 0..RFCOMM_MAX_DEV-1; a
\* create with a negative id when every id of the range is taken, and a
\* create for an id >= RFCOMM_MAX_DEV, fail with ENFILE and link nothing.
C7_IdRange ==
    [][\A c \in Creators :
         (ctx[c].pc = "add_list" /\ ctx'[c] # ctx[c]) =>
            /\ ctx'[c].pc = "add_dlc" =>
                  /\ dev'[ctx[c].dev].id \in Ids
                  /\ Linked(ctx[c].dev)'
            /\ (\/ ctx[c].req.dev_id < 0 /\ Ids \subseteq RegIds
                \/ ctx[c].req.dev_id >= RFCOMM_MAX_DEV) =>
                  /\ ctx'[c].pc = "add_free"
                  /\ ctx'[c].ret = ENFILE
                  /\ UNCHANGED <<rfcomm_dev_list, dev>>]_vars

\* 'any' has failed with ENFILE on a full registry
C7_Witness ==
    \E c \in Creators :
        /\ ctx[c].pc = "add_free"
        /\ ctx[c].ret = ENFILE
        /\ ctx[c].req.dev_id < 0
        /\ RegIds = Ids

\* C8: a failed rfcomm_dev_add() leaves nothing behind: when the record is
\* about to be freed it is unlinked, no other context has obtained it, the
\* DLC's owner and callbacks do not refer to it, no data is left in its
\* pending queue, and the module reference taken for it has been released.
C8_FailureUndone ==
    /\ module_refs =
          Cardinality({s \in Slots : dev[s].st = "live" /\ dev[s].dlc # Null})
    /\ \A c \in Creators :
         ctx[c].pc = "add_free" =>
            LET s == ctx[c].dev
                d == ctx[c].did
            IN  /\ ~Linked(s)
                /\ dlc[d].owner # s
                /\ dev[s].pending = <<>>
                /\ \A o \in Ctx \ {c} : ctx[o].dev # s /\ ctx[o].tgt # s

\* C9: of the open() calls on a device exactly the one that raises
\* port.count from 0 to 1 attaches the tty and calls rfcomm_dlc_open(); an
\* open() that finds the port open only increments the count, so that no two
\* callers are ever between the attach and the end of the wait for the DLC.
C9_OneAttach ==
    /\ hist.n01 = hist.nattach
                    + Cardinality({u \in Users : ctx[u].pc = "open_attach"})
    /\ \A s \in Slots :
         dev[s].st = "live" =>
            Cardinality({u \in Users : /\ ctx[u].dev = s
                                       /\ ctx[u].pc \in {"open_attach", "open_wait", "open_sched",
                                                       "open_done"}}) <= 1

\* two open() calls overlap on one device and one attach has been made
C9_Witness ==
    /\ hist.n01 = 1
    /\ hist.nattach = 1
    /\ \E s \in Slots : dev[s].st = "live" /\ dev[s].count = 2

\* C10: port.count is balanced: it is never negative, and once every open()
\* has been followed by its close() the count is 0, RFCOMM_TTY_ATTACHED and
\* the tty are cleared, and rfcomm_dlc_close() has been called once for each
\* time the count went from 0 to 1.
C10_Balanced ==
    /\ hist.nclose <= hist.n01
    /\ hist.n01 <= hist.nclose + 1
    /\ \A s \in Slots :
         dev[s].st = "live" =>
            /\ dev[s].count >= 0
            /\ UsersIdle =>
                  /\ dev[s].count = 0
                  /\ ~dev[s].attached
                  /\ ~dev[s].tty
                  /\ tty[dev[s].id].driver_data = Null
                  /\ hist.nclose = hist.n01

\* two overlapping open() calls on a device that is still there, and both
\* close() calls, have been made
C10_Witness ==
    /\ UsersIdle
    /\ \A u \in Users : ctx[u].left = 0
    /\ hist.n01 = 1
    /\ hist.nclose = 1
    /\ \E s \in Slots : dev[s].st = "live" /\ ~dev[s].released /\ dev[s].registered

\* C11: the chunks received on the DLC of a device reach the read buffer in
\* the order of their arrival, each exactly once: at every moment the read
\* buffer followed by dev->pending is the sequence of the chunks received so
\* far, whether a chunk was handed over with the DLC, arrived while
\* dev->pending was not empty, or was delivered directly, and however
\* rfcomm_dev_data_ready() interleaves with the drain in open().
C11_InOrder ==
    \A s \in Slots :
        (dev[s].st = "live" /\ dev[s].dlc # Null /\ dlc[dev[s].dlc].owner = s)
            => dev[s].rx \o dev[s].pending = [i \in 1..dlc[dev[s].dlc].seq |-> i]

\* chunks handed over with the DLC and a chunk that arrived behind them were
\* drained by open(), and a later chunk was delivered directly
C11_Witness ==
    \E s \in Slots :
        /\ dev[s].st = "live"
        /\ dev[s].pending = <<>>
        /\ dev[s].rx = [i \in 1..MaxRx |-> i]
        /\ hist.nqueued > 0
        /\ \E u \in Users : ctx[u].pc = "opened" /\ ctx[u].dev = s /\ ctx[u].ret = 0

\* C12: a plain release (RFCOMM_HANGUP_NOW not set) that is about to return
\* success after its last tty_port_put() has marked the record released,
\* whatever its flags (RFCOMM_RELEASE_ONHUP included) and its port.count, and
\* the lookup by id used by release, info and open no longer finds the record.
C12_ReleaseMarks ==
    \A c \in Releasers :
        (ctx[c].pc = "put" /\ ctx[c].after = "idle" /\ ctx[c].nput = 1
            /\ ~ctx[c].now)
            => /\ dev[ctx[c].tgt].released
               /\ rfcomm_dev_get(dev[ctx[c].tgt].id) # ctx[c].tgt

\* a record that rfcomm_dev_del() marked released while the port was open,
\* and that is still open
Held(s) == dev[s].deferred /\ dev[s].count > 0

\* the step of rfcomm_get_dev_info() that looks the id up
InfoStep(c) ==
    /\ Idle(c)
    /\ \/ ctx'[c].pc = "put"
       \/ ctx'[c].pc = "ioctl_ret" /\ ctx'[c].ret = ENODEV

\* the step of rfcomm_get_dev_list() that takes the snapshot
ListStep(c) == Idle(c) /\ ctx'[c].pc = "ioctl_ret" /\ ctx'[c].ret = 0

\* C13: after a plain release of a device whose port.count is
\* positive, and until the last close, the record is not torn down (it stays
\* allocated and linked), info(id) still succeeds and returns the record, and
\* list() does not include it.
C13_InfoVisible ==
    /\ [](\A s \in Slots : Held(s) => dev[s].st = "live" /\ Linked(s))
    /\ [][\A c \in Inquirers, s \in Slots :
            Held(s) =>
               /\ (InfoStep(c) /\ ctx'[c].req.dev_id = dev[s].id)
                     => ctx'[c].ret = 0 /\ ctx'[c].out = <<DevInfo(s)>>
               /\ ListStep(c)
                     => \A i \in DOMAIN ctx'[c].out :
                           ctx'[c].out[i].id # dev[s].id]_vars

\* the step of rfcomm_tty_close() that follows a decrement of port.count to 0
CloseLastStep(u) == ctx[u].pc = "close_last" /\ ctx'[u].pc = "put"

\* the step of rfcomm_tty_close() that leaves port.count above 0
CloseStep(u) == ctx[u].pc = "opened" /\ ctx'[u].pc = "put"

\* C14: the close() that brings port.count to 0 on a record marked released
\* completes the deferred removal: the record is unlinked, so that no lookup
\* by id finds it, and the registry's reference is put before the opener's
\* own (the record is destroyed by the put that takes the last reference);
\* a close() that leaves port.count above 0, and a last close() on a record
\* not marked released, leave the list as it is.
C14_DeferredRemoval ==
    [][\A u \in Users, s \in Slots :
          /\ (CloseLastStep(u) /\ s = ctx[u].tgt) =>
                IF dev[s].released
                THEN /\ s \notin ListSlots'
                     /\ RawDevGet(dev[s].id)' # s
                     /\ ctx'[u].nput = 2
                ELSE /\ rfcomm_dev_list' = rfcomm_dev_list
                     /\ ctx'[u].nput = 1
          /\ CloseStep(u) =>
                /\ rfcomm_dev_list' = rfcomm_dev_list
                /\ ctx'[u].nput = 1]_vars

\* the last close() has just unlinked a record that was marked released
\* while the port was open; the put of the registry's reference and the
\* opener's own are next
C14_Witness ==
    \E u \in Users, s \in Slots :
        /\ ctx[u].pc = "put"
        /\ ctx[u].nput = 2
        /\ ctx[u].after = "close_end"
        /\ ctx[u].tgt = s
        /\ dev[s].st = "live"
        /\ dev[s].deferred
        /\ dev[s].count = 0
        /\ s \notin ListSlots
        /\ ~hist.unmatched

\* the bytes of the chunks a write has handed to the DLC so far
Accepted(ch) == IF ch = <<>> THEN 0 ELSE ch[Len(ch)].off + ch[Len(ch)].len

\* C15: the chunks rfcomm_tty_write() hands to the DLC are each at most mtu
\* bytes and follow one another from offset 0 of the buffer, so that their
\* concatenation is a prefix of the buffer; when the write returns after at
\* least one chunk was accepted it returns the bytes of the accepted chunks,
\* also when rfcomm_wmalloc() or rfcomm_dlc_send() failed on a later chunk,
\* and it returns an error only when no byte was accepted.
C15_WriteChunks ==
    \A u \in Users :
        ctx[u].pc \in {"write_loop", "write_ret"} =>
            LET ch == ctx[u].out
                w  == ctx[u].wr
                s  == tty[ctx[u].idx].driver_data
            IN
            /\ \A i \in DOMAIN ch :
                  /\ ch[i].len >= 1
                  /\ ch[i].len <= dlc[dev[s].dlc].mtu
                  /\ ch[i].off = IF i = 1 THEN 0
                                 ELSE ch[i - 1].off + ch[i - 1].len
            /\ Accepted(ch) <= w.total
            /\ ctx[u].pc = "write_ret" =>
                  /\ ch # <<>> => w.ret = Accepted(ch)
                  /\ w.ret < 0 => ch = <<>>
                  /\ (w.err = 0 /\ w.count = 0) => w.ret = w.total

\* a write of more than two chunks returns short: two chunks were accepted
\* and rfcomm_dlc_send() failed on the third
C15_Witness ==
    \E u \in Users :
        /\ ctx[u].pc = "write_ret"
        /\ Len(ctx[u].out) = 2
        /\ ctx[u].wr.err = ENOTCONN
        /\ ctx[u].wr.ret = Accepted(ctx[u].out)
        /\ ctx[u].wr.ret < ctx[u].wr.total

\* C16: the room rfcomm_tty_write_room() reports for an attached tty is
\* mtu * max(tx_credits, 1) less the accounted bytes, and 0 when that is
\* negative; with nothing accounted the room is at least mtu, also when
\* tx_credits is 0.
C16_Room ==
    \A i \in Ids :
        LET s == tty[i].driver_data IN
        (s # Null /\ dev[s].st = "live" /\ dev[s].dlc # Null) =>
            LET d    == dlc[dev[s].dlc]
                cr   == IF d.tx_credits > 1 THEN d.tx_credits ELSE 1
                diff == d.mtu * cr - dev[s].wmem_alloc
            IN
            /\ rfcomm_tty_write_room(i) = IF diff > 0 THEN diff ELSE 0
            /\ dev[s].wmem_alloc = 0 => rfcomm_tty_write_room(i) >= d.mtu

\* a DLC without credits: every chunk of an earlier write has been freed,
\* nothing is accounted, and the room is the mtu
C16_Witness ==
    \E i \in Ids :
        LET s == tty[i].driver_data IN
        /\ s # Null
        /\ dev[s].st = "live"
        /\ dlc[dev[s].dlc].tx_credits = 0
        /\ dlc[dev[s].dlc].txq = <<>>
        /\ dev[s].wmem_alloc = 0
        /\ sched.writes < MaxWrites
        /\ rfcomm_tty_write_room(i) = dlc[dev[s].dlc].mtu

\* C17: when rfcomm_tty_set_termios() is called with settings that differ
\* from the previous ones only in CSTOPB, exactly one message is sent; its
\* parameter mask is the stop-bit bit alone, its baud rate, data bits,
\* parity and both flow-control characters are those of the current
\* settings, and two stop bits are sent as RFCOMM_RPN_STOP_15.
C17_StopBitOnly ==
    \A u \in Users :
        LET old == ctx[u].old
            new == tty[ctx[u].idx].termios
            msg == ctx[u].out
        IN
        (ctx[u].pc = "termios_ret" /\ old.cstopb # new.cstopb
            /\ [old EXCEPT !.cstopb = new.cstopb] = new)
            => /\ Len(msg) = 1
               /\ msg[1].changes = {"RFCOMM_RPN_PM_STOP"}
               /\ msg[1].baud = RpnBaud(new.baud)
               /\ msg[1].data_bits = RpnData(new)
               /\ msg[1].parity = RpnParity(new)
               /\ msg[1].x_on = new.vstart
               /\ msg[1].x_off = new.vstop
               /\ msg[1].stop_bits = IF new.cstopb THEN "RFCOMM_RPN_STOP_15"
                                      ELSE "RFCOMM_RPN_STOP_1"

\* the step of rfcomm_dev_state_change() that reports DLC d closed to the
\* record that owns it
ClosedStep(c, d) ==
    /\ rfcomm_dev_state_change(c)
    /\ dlc[d].owner # Null
    /\ dlc'[d] # dlc[d]
    /\ dlc'[d].state = "CLOSED"

\* the step of rfcomm_dev_state_change() that looks the id up again, the DLC
\* lock dropped
RecheckStep(c) == ctx[c].pc = "sc_get" /\ ctx'[c].pc # "sc_get"

Waiting(u) == ctx[u].pc \in {"open_wait", "open_sched"}

\* C19: a caller in the wait loop of rfcomm_tty_open() leaves the loop and
\* open() returns once the DLC is connected or closed, wherever the wake-up of
\* the callback falls between the caller's check and its schedule(); and
\* schedule() returns only to a task that the callback has woken or that a
\* signal has reached.
C19_NoLostWakeup ==
    /\ \A u \in Users :
          (Waiting(u) /\ NoSleep(dlc[ctx[u].did].state)) ~> (ctx[u].pc = "opened")
    /\ [][\A u \in Users :
            (ctx[u].pc = "open_sched" /\ ctx'[u].pc # "open_sched")
               => ctx[u].tstate = "running" \/ ctx'[u].sig]_vars

\* the callback has reported the connection to a caller that is in schedule()
\* and had put itself to sleep
C19_Witness ==
    \E u \in Users :
        /\ ctx[u].pc = "open_sched"
        /\ ctx[u].tstate = "running"
        /\ dlc[ctx[u].did].state = "CONNECTED"

\* the pass of the wait loop of rfcomm_tty_open() that ends the wait
WaitEndStep(u) == ctx[u].pc = "open_wait" /\ ctx'[u].pc = "open_done"

\* the return of rfcomm_tty_open() after the wait
OpenReturnStep(u) == ctx[u].pc = "open_done" /\ ctx'[u].pc = "opened"

\* C20: the open() that attached the tty returns 0 only when its wait ended
\* with the DLC connected; when the wait ended with the DLC closed it returns
\* the error the last rfcomm_dev_state_change() stored, a failure whatever the
\* stored code; when a signal ended it, it returns -EINTR; and in all three
\* cases dev->pending is empty and the DLC unthrottled when open() returns.
C20_OpenResult ==
    [][\A u \in Users :
          /\ WaitEndStep(u) =>
                LET st == dlc[ctx[u].did].state IN
                /\ st = "CONNECTED" => ctx'[u].ret = 0
                /\ st = "CLOSED" => /\ ctx'[u].ret = 0 - dev[ctx[u].dev].err
                                    /\ ctx'[u].ret < 0
                /\ st \notin {"CONNECTED", "CLOSED"} => ctx'[u].ret = EINTR
                /\ ctx'[u].ret = 0 => st = "CONNECTED"
          /\ OpenReturnStep(u) =>
                /\ dev'[ctx[u].dev].pending = <<>>
                /\ ~dlc'[ctx[u].did].throttled
                /\ ctx'[u].ret = ctx[u].ret]_vars

\* C21: every reference to a record is put exactly once: no close() acts for
\* an open() that failed before it took a reference, no reference count goes
\* below zero (the registry's reference is put by rfcomm_dev_del() or by the
\* last close() of a released record, never by both), and no record is used
\* after it was freed.
C21_RefsOnce ==
    /\ ~hist.unmatched
    /\ \A s \in Slots : dev[s].kref >= 0
    /\ ~hist.uaf

\* C22: no DLC's owner points at a record that has been freed: the owner is
\* cleared before the kfree() on every path that frees a record, the failure
\* paths of rfcomm_dev_add() included.
C22_OwnerNotFreed ==
    \A d \in Dlcs :
        (dlc[d].st = "live" /\ dlc[d].owner \in Slots)
            => dev[dlc[d].owner].st # "freed"

\* C23: no chunk is left in dev->pending when the record is freed (every
\* chunk moved to dev->pending at the handoff or queued there by
\* rfcomm_dev_data_ready() has gone to the read buffer or was freed), also
\* when the device is released without having been opened.
C23_NoChunkLost ==
    \A s \in Slots : dev[s].st = "freed" => dev[s].pending = <<>>

\* the parameter-mask bits of the settings that differ between old and new:
\* c_cc[VSTART] is the XON character, c_cc[VSTOP] the XOFF character
TermiosDiff(old, new) ==
    (IF old.parenb # new.parenb \/ old.parodd # new.parodd
     THEN {"RFCOMM_RPN_PM_PARITY"} ELSE {}) \cup
    (IF old.vstart # new.vstart THEN {"RFCOMM_RPN_PM_XON"} ELSE {}) \cup
    (IF old.vstop # new.vstop THEN {"RFCOMM_RPN_PM_XOFF"} ELSE {}) \cup
    (IF old.cstopb # new.cstopb THEN {"RFCOMM_RPN_PM_STOP"} ELSE {}) \cup
    (IF old.csize # new.csize THEN {"RFCOMM_RPN_PM_DATA"} ELSE {}) \cup
    (IF old.baud # new.baud THEN {"RFCOMM_RPN_PM_BITRATE"} ELSE {})

\* C24: rfcomm_tty_set_termios() sends exactly one message when parity,
\* stop bits, data bits, baud rate or a flow-control character differs
\* between the old and the new settings, with a parameter mask of exactly
\* the bits of the settings that differ, and nothing when none differs; the
\* message carries the current value of every parameter (a baud rate that is
\* not recognised as 9600, a size that is not recognised as 8 bits).
C24_Translator ==
    \A u \in Users :
        LET old == ctx[u].old
            new == tty[ctx[u].idx].termios
            msg == ctx[u].out
        IN
        ctx[u].pc = "termios_ret" =>
            IF TermiosDiff(old, new) = {}
            THEN msg = <<>>
            ELSE /\ Len(msg) = 1
                 /\ msg[1].changes = TermiosDiff(old, new)
                 /\ msg[1].baud = RpnBaud(new.baud)
                 /\ msg[1].data_bits = RpnData(new)
                 /\ msg[1].stop_bits = RpnStop(new)
                 /\ msg[1].parity = RpnParity(new)
                 /\ msg[1].x_on = new.vstart
                 /\ msg[1].x_off = new.vstop

\* the chunks on DLC d that are accounted to record s
Chunks(d, s) == {i \in DOMAIN dlc[d].txq : dlc[d].txq[i].sk = s}

\* C25: the outbound accounting is balanced.  dev->wmem_alloc is the sum of
\* the truesize of the accounted chunks that are alive, so it is never
\* negative and is 0 when none is alive; a chunk is allocated only while the
\* counter is below rfcomm_room(), it adds its truesize and takes one
\* reference; a chunk that is freed (transmitted, or purged by a flush)
\* subtracts its truesize and has its reference put once; a chunk whose send
\* failed leaves counter and references as they were.
C25_Balanced ==
    /\ [](\A s \in Slots :
            (dev[s].st = "live" /\ dev[s].dlc # Null) =>
               /\ dev[s].wmem_alloc = Accounted(dlc[dev[s].dlc].txq, s)
               /\ dev[s].wmem_alloc >= 0
               /\ Chunks(dev[s].dlc, s) = {} => dev[s].wmem_alloc = 0)
    /\ [][\A s \in Slots :
            (dev[s].st = "live" /\ dev[s].dlc # Null /\ dev'[s].st = "live") =>
               LET d  == dev[s].dlc
                   n  == Len(dlc[d].txq)
                   n1 == Len(dlc'[d].txq)
               IN
               /\ n1 > n =>
                     /\ n1 = n + 1
                     /\ dev[s].wmem_alloc < rfcomm_room(d)
                     /\ dev'[s].wmem_alloc =
                           dev[s].wmem_alloc + dlc'[d].txq[n1].truesize
                     /\ dev'[s].kref = dev[s].kref + 1
               /\ n1 < n =>
                     /\ dev'[s].wmem_alloc =
                           dev[s].wmem_alloc - Accounted(dlc[d].txq, s)
                                             + Accounted(dlc'[d].txq, s)
                     /\ \E c \in Ctx :
                           /\ ctx[c].pc # "put"
                           /\ ctx'[c].pc = "put"
                           /\ ctx'[c].tgt = s
                           /\ ctx'[c].nput = n - n1
               /\ n1 = n => dev'[s].wmem_alloc = dev[s].wmem_alloc]_vars

\* the RFCOMM core has freed the first of two chunks of a write: its bytes
\* are off the counter, its reference is about to be put, and the second
\* chunk is still accounted
C25_Witness ==
    \E s \in Slots, c \in Krfcommd :
        /\ dev[s].st = "live"
        /\ ctx[c].pc = "put"
        /\ ctx[c].tgt = s
        /\ dev[s].dlc # Null
        /\ Len(dlc[dev[s].dlc].txq) = 1
        /\ dev[s].wmem_alloc = dlc[dev[s].dlc].txq[1].truesize
====
